---------------------------- MODULE Spec2Model ----------------------------
(***************************************************************************)
(* Model of the recovery-protocol validator (prototype/src/validator-core  *)
(* .ts, with the helpers of prototype/src/common.ts).                      *)
(*                                                                         *)
(* A ValidatorCore is modelled by its two maps (accounts, voteStore) and   *)
(* its handlers onTransaction and onVote, each taken as one atomic step.   *)
(* The client and the other validators are the environment: they call the  *)
(* handlers with any client-signed transaction and any validly signed vote *)
(* of the bounded universes below.                                         *)
(*                                                                         *)
(* Encoding.  A nullable value is a sequence of length 0 or 1: <<>> is     *)
(* null and <<x>> is x (Vote.serializedTx, Transaction.data).  An address  *)
(* string is a pair <<id, spelling>>: id names the 20 bytes, spelling the  *)
(* letter case they are written in; spelling 0 is the checksummed form     *)
(* that wallet.address returns, spelling 1 what toLowerCase() returns, and *)
(* the higher spellings are the other mixtures of upper and lower case.    *)
(***************************************************************************)
EXTENDS Integers, Sequences, FiniteSets, TLC

(***************************************************************************)
(* Protocol parameters (common.ts).                                        *)
(***************************************************************************)
F_BYZANTINE == 1
N_VALIDATORS == 5 * F_BYZANTINE + 1
FINALITY_QUORUM == N_VALIDATORS - F_BYZANTINE
NOTARISATION_QUORUM == N_VALIDATORS - 3 * F_BYZANTINE
RECOVERY_CONTRACT == "recovery"

(***************************************************************************)
(* Bounds of the model.                                                    *)
(***************************************************************************)
MaxNonce == 2
NumSpellings == 3
MaxCalls == 3
MaxAhead == 1
MaxReplays == 2
GenesisBalance == 3

Spellings == 0 .. (NumSpellings - 1)
Address(id) == <<id, 0>>
ToLowerCase(a) == <<a[1], 1>>

ValidatorIds == 1 .. N_VALIDATORS
Outsider == N_VALIDATORS + 1
Client == "A"
Recipient == "R1"
Accounts == {Client, Recipient, RECOVERY_CONTRACT}
Nonces == 0 .. MaxNonce

Null == <<>>
Some(x) == <<x>>

(* Body(x) with x bound to the value of e, evaluated once.                 *)
With(e, Body(_)) == CHOOSE y \in {Body(x) : x \in {e}} : TRUE

(***************************************************************************)
(* Transactions.  A signed transaction travels as its serialization, here  *)
(* a name; TransactionFrom parses it.  `signed` is FALSE when no sender    *)
(* can be recovered from the signature (tx.from is null); `data` is the    *)
(* serialization of the tip of a recovery.  The hash is a function of the  *)
(* serialization, and distinct serializations have distinct hashes.        *)
(***************************************************************************)
Payment(n, v) ==
    [from |-> Client, to |-> Recipient, value |-> v, nonce |-> n,
     data |-> Null, signed |-> TRUE]
Recovery(n, tip) ==
    [from |-> Client, to |-> RECOVERY_CONTRACT, value |-> 0, nonce |-> n,
     data |-> Some(tip), signed |-> TRUE]
Unsigned(tx) == [tx EXCEPT !.signed = FALSE]

Decoded ==
    [P0a |-> Payment(0, 1),
     P0b |-> Payment(0, 2),
     P0c |-> Payment(0, 3),
     P1  |-> Payment(1, 1),
     R1a |-> Recovery(1, "P0a"),
     R1b |-> Recovery(1, "P0b"),
     R1p |-> Recovery(1, "P1"),
     P2  |-> Payment(2, 1),
     R2a |-> Recovery(2, "P0a"),
     R2b |-> Recovery(2, "P0b"),
     R2n |-> Recovery(2, "R1a"),
     R2m |-> Recovery(2, "R1b"),
     U0a |-> Unsigned(Payment(0, 1)),
     P0x |-> Payment(0, GenesisBalance + 1),
     R1e |-> [Recovery(1, "P0a") EXCEPT !.data = Null],
     R1u |-> Recovery(1, "U0a"),
     R2p |-> Recovery(2, "P1"),
     P1x |-> Payment(1, GenesisBalance),
     Q0  |-> [Payment(0, 1) EXCEPT !.from = Recipient, !.to = Client],
     S1  |-> [Payment(1, 1) EXCEPT !.to = Client]]

TransactionFrom(serialized) ==
    [from   |-> Decoded[serialized].from,
     to     |-> Decoded[serialized].to,
     value  |-> Decoded[serialized].value,
     nonce  |-> Decoded[serialized].nonce,
     data   |-> Decoded[serialized].data,
     signed |-> Decoded[serialized].signed,
     serialized |-> serialized,
     hash   |-> <<"keccak", serialized>>]

(***************************************************************************)
(* Votes (common.ts, interface Vote).  The signature is modelled by what   *)
(* verifyMessage recovers from it: the signer, provided the digest that is *)
(* checked is the digest that was signed.                                  *)
(***************************************************************************)
voteTx(vote) ==
    IF vote.serializedTx = Null THEN Null
    ELSE Some(TransactionFrom(vote.serializedTx[1]))
voteTxHash(vote) ==
    IF vote.serializedTx = Null THEN Null
    ELSE Some(TransactionFrom(vote.serializedTx[1]).hash)
Digest(account, nonce, hash) == <<account, nonce, hash>>
SignMessage(signer, digest) == [signer |-> signer, digest |-> digest]
VerifyMessage(digest, signature) ==
    IF signature.digest = digest THEN signature.signer ELSE 0

countQuorum(votes, txHash) ==
    Cardinality({votes[i].validator :
                    i \in {j \in 1 .. Len(votes) : voteTxHash(votes[j]) = txHash}})

(* verifyVote without the validator set (its optional parameter left out;  *)
(* a variant used to test C21).                                            *)
verifyVoteSignatureOnly(vote, validatorSet) ==
    LET recovered == VerifyMessage(
                         Digest(vote.account, vote.nonce, voteTxHash(vote)),
                         vote.signature)
    IN  ToLowerCase(Address(recovered)) = ToLowerCase(vote.validator)

verifyVote(vote, validatorSet) ==
    /\ ToLowerCase(vote.validator) \in validatorSet
    /\ LET recovered == VerifyMessage(
                            Digest(vote.account, vote.nonce, voteTxHash(vote)),
                            vote.signature)
       IN  ToLowerCase(Address(recovered)) = ToLowerCase(vote.validator)

(***************************************************************************)
(* The state of one ValidatorCore, as a value: the handlers below are      *)
(* functions from such a value (and the call's argument) to the value      *)
(* after the call.  `executed` lists the arguments of the executeTransfer  *)
(* calls so far and `broadcast` the votes handed to broadcastVoteCallback  *)
(* during the call; neither is read by the handlers.                       *)
(***************************************************************************)
validatorSet == {ToLowerCase(Address(id)) : id \in ValidatorIds}

NewAccount(balance) ==
    [balance |-> balance, nonce |-> 0, pending |-> FALSE, finalised |-> -1]

NewCore ==
    [accounts  |-> [a \in Accounts |->
                      NewAccount(IF a = Client THEN GenesisBalance ELSE 0)],
     voteStore |-> [a \in Accounts |-> [k \in Nonces |-> <<>>]],
     executed  |-> <<>>,
     broadcast |-> <<>>]

getVotes(s, account, nonce) ==
    IF nonce \in Nonces THEN s.voteStore[account][nonce] ELSE <<>>

(* signVote(account, nonce, tx): tx is null or a Transaction.               *)
signVote(self, account, nonce, tx) ==
    [validator    |-> Address(self),
     account      |-> account,
     nonce        |-> nonce,
     serializedTx |-> IF tx = Null THEN Null ELSE Some(tx[1].serialized),
     signature    |-> SignMessage(self,
                        Digest(account, nonce,
                               IF tx = Null THEN Null ELSE Some(tx[1].hash)))]

(* The groups of votesByTx are visited in the order their first vote was   *)
(* stored; the first group with the largest count wins.                    *)
MaxCount(votes) ==
    IF votes = <<>> THEN 0
    ELSE With({countQuorum(votes, voteTxHash(votes[i])) : i \in 1 .. Len(votes)},
              LAMBDA counts : CHOOSE q \in counts : \A r \in counts : r <= q)

FirstOfMax(votes, maxQuorum) ==
    CHOOSE i \in 1 .. Len(votes) :
        /\ countQuorum(votes, voteTxHash(votes[i])) = maxQuorum
        /\ \A j \in 1 .. (i - 1) :
               countQuorum(votes, voteTxHash(votes[j])) < maxQuorum

CertOf(votes, first) ==
    SelectSeq(votes, LAMBDA v : voteTxHash(v) = voteTxHash(votes[first]))

getMaxQuorumCert(votes, minQuorum) ==
    With(MaxCount(votes), LAMBDA maxQuorum :
        IF maxQuorum < minQuorum THEN [quorum |-> 0, tx |-> Null, cert |-> Null]
        ELSE IF votes = <<>>
        THEN [quorum |-> maxQuorum, tx |-> Null, cert |-> Some(<<>>)]
        ELSE With(FirstOfMax(votes, maxQuorum), LAMBDA first :
                 [quorum |-> maxQuorum,
                  tx     |-> voteTx(votes[first]),
                  cert   |-> Some(CertOf(votes, first))]))

(* The number of recoveries getTxChainStart unwraps to reach the chain     *)
(* start of tx: the depth of its recursion.                                *)
RECURSIVE chainDepth(_)
chainDepth(tx) ==
    IF tx.to = RECOVERY_CONTRACT /\ tx.data # Null
    THEN 1 + chainDepth(TransactionFrom(tx.data[1]))
    ELSE 0

RECURSIVE getTxChainStart(_)
getTxChainStart(tx) ==
    IF tx.to = RECOVERY_CONTRACT /\ tx.data # Null
    THEN getTxChainStart(TransactionFrom(tx.data[1]))
    ELSE tx

(* executeTransfer without the credit to the recipient (a variant used to *)
(* test C14).                                                              *)
executeTransferDebitOnly(s, tx) ==
    [[s EXCEPT !.accounts[tx.from].balance = @ - tx.value]
        EXCEPT !.executed = Append(@, tx.serialized)]

executeTransfer(s, tx) ==
    [[[s EXCEPT !.accounts[tx.from].balance = @ - tx.value]
         EXCEPT !.accounts[tx.to].balance = @ + tx.value]
         EXCEPT !.executed = Append(@, tx.serialized)]

hasOwnBot(self, votes) ==
    \E i \in 1 .. Len(votes) :
        votes[i].validator = Address(self) /\ votes[i].serializedTx = Null

setPending(s, account, pending) ==
    [s EXCEPT !.accounts[account].pending = pending]

advanceNonce(s, account, nonce) ==
    [s EXCEPT !.accounts[account].nonce = nonce + 1,
              !.accounts[account].pending = FALSE]

broadcastVote(s, vote) == [s EXCEPT !.broadcast = Append(@, vote)]

(* Variants of the finality rule with a plausible slip, used to test the  *)
(* properties below: advancing by the nonce of the chain start instead of  *)
(* the nonce of the certificate, and forgetting to advance the nonce.      *)
applyFinalityByChainStart(s, account, nonce, originalTx) ==
    With(IF originalTx.nonce = s.accounts[account].finalised + 1
         THEN executeTransfer(s, originalTx) ELSE s,
         LAMBDA s2 :
            IF nonce >= s2.accounts[account].nonce
            THEN advanceNonce([s2 EXCEPT !.accounts[account].finalised =
                                              originalTx.nonce],
                              account, originalTx.nonce)
            ELSE [s2 EXCEPT !.accounts[account].finalised = originalTx.nonce])

applyFinalityNoAdvance(s, account, nonce, originalTx) ==
    With(IF originalTx.nonce = s.accounts[account].finalised + 1
         THEN executeTransfer(s, originalTx) ELSE s,
         LAMBDA s2 : [s2 EXCEPT !.accounts[account].finalised = nonce])

(* The finality rule applying the transfer of the chain start whether or   *)
(* not it was executed before (a variant used to test C17).                *)
applyFinalityAlwaysExecutes(s, account, nonce, originalTx) ==
    With(executeTransfer(s, originalTx),
         LAMBDA s2 :
            IF nonce >= s2.accounts[account].nonce
            THEN advanceNonce([s2 EXCEPT !.accounts[account].finalised = nonce],
                              account, nonce)
            ELSE [s2 EXCEPT !.accounts[account].finalised = nonce])

(* processCertificate, lines 223-237: the finality rule, on the quorum and *)
(* transaction computed at the top of processCertificate.                  *)
applyFinality(s, account, nonce, originalTx) ==
    With(IF originalTx.nonce = s.accounts[account].finalised + 1
         THEN executeTransfer(s, originalTx) ELSE s,
         LAMBDA s2 :
            IF nonce >= s2.accounts[account].nonce
            THEN advanceNonce([s2 EXCEPT !.accounts[account].finalised = nonce],
                              account, nonce)
            ELSE [s2 EXCEPT !.accounts[account].finalised = nonce])

(* The finality rule without the check of the chain start (a variant used *)
(* to test C27).                                                           *)
handleFinalityUnchecked(s, account, nonce, quorum, tx) ==
    IF quorum >= FINALITY_QUORUM /\ nonce > s.accounts[account].finalised /\ tx # Null
    THEN applyFinality(s, account, nonce, getTxChainStart(tx[1]))
    ELSE s

handleFinality(s, account, nonce, quorum, tx) ==
    IF quorum >= FINALITY_QUORUM /\ nonce > s.accounts[account].finalised /\ tx # Null
    THEN With(getTxChainStart(tx[1]), LAMBDA originalTx :
            IF \/ originalTx.nonce = s.accounts[account].finalised
               \/ originalTx.nonce = s.accounts[account].finalised + 1
            THEN applyFinality(s, account, nonce, originalTx)
            ELSE s)
    ELSE s

RECURSIVE onVote(_, _, _)

(* processCertificate, lines 206-221: the rules for the current nonce.     *)
castBot(s, self, account, nonce) ==
    With(signVote(self, account, nonce, Null), LAMBDA botVote :
        With(onVote(setPending(s, account, TRUE), self, botVote), LAMBDA sv :
            broadcastVote(sv, botVote)))

(* The rules for the current nonce advancing on a notarisation whether or  *)
(* not the account is pending (a variant used to test C31).                *)
handleCurrentNonceAlwaysAdvances(s, self, votes, account, nonce, quorum) ==
    IF nonce # s.accounts[account].nonce THEN s
    ELSE IF quorum < NOTARISATION_QUORUM
    THEN IF ~ hasOwnBot(self, votes) THEN castBot(s, self, account, nonce) ELSE s
    ELSE advanceNonce(s, account, nonce)

handleCurrentNonce(s, self, votes, account, nonce, quorum) ==
    IF nonce # s.accounts[account].nonce THEN s
    ELSE IF quorum < NOTARISATION_QUORUM
    THEN IF ~ hasOwnBot(self, votes) THEN castBot(s, self, account, nonce) ELSE s
    ELSE IF s.accounts[account].pending
    THEN advanceNonce(s, account, nonce)
    ELSE s

processCertificate(s, self, votes) ==
    With(getMaxQuorumCert(votes, 1), LAMBDA mq :
        With(handleCurrentNonce(s, self, votes, votes[1].account, votes[1].nonce,
                                mq.quorum),
             LAMBDA s1 :
                handleFinality(s1, votes[1].account, votes[1].nonce,
                               mq.quorum, mq.tx)))

onVoteThrows(vote) == ~ verifyVote(vote, validatorSet)

onVoteError(vote) ==
    IF onVoteThrows(vote) THEN "Invalid vote signature or validator not in set"
    ELSE "ok"

(* isDropped without the check for transaction votes (a variant used to   *)
(* test C11).                                                              *)
isDroppedOnlyBottom(existing, vote) ==
    /\ vote.serializedTx = Null
    /\ \E i \in 1 .. Len(existing) :
           /\ existing[i].validator = vote.validator
           /\ existing[i].serializedTx = Null

(* isDropped dropping a bottom vote, too, behind any vote of its validator *)
(* (a variant used to test C37).                                           *)
isDroppedAnyVote(existing, vote) ==
    \E i \in 1 .. Len(existing) : existing[i].validator = vote.validator

isDropped(existing, vote) ==
    IF vote.serializedTx # Null
    THEN \E i \in 1 .. Len(existing) : existing[i].validator = vote.validator
    ELSE \E i \in 1 .. Len(existing) :
             /\ existing[i].validator = vote.validator
             /\ existing[i].serializedTx = Null

pushVote(s, vote) ==
    [s EXCEPT !.voteStore[vote.account][vote.nonce] = Append(@, vote)]

onVote(s, self, vote) ==
    IF onVoteThrows(vote) THEN s
    ELSE IF isDropped(s.voteStore[vote.account][vote.nonce], vote) THEN s
    ELSE IF /\ vote.nonce = s.accounts[vote.account].nonce
            /\ Len(s.voteStore[vote.account][vote.nonce]) + 1 >= FINALITY_QUORUM
    THEN With(pushVote(s, vote), LAMBDA s1 :
            processCertificate(s1, self, s1.voteStore[vote.account][vote.nonce]))
    ELSE pushVote(s, vote)

(* validatePayment without the check of the last finalised nonce (a       *)
(* variant used to test C12).                                              *)
validatePaymentNoGapCheck(s, tx) ==
    IF s.accounts[tx.from].balance < tx.value THEN "Insufficient balance"
    ELSE "ok"

validatePayment(s, tx) ==
    IF s.accounts[tx.from].finalised # tx.nonce - 1 THEN "Previous nonce not finalised"
    ELSE IF s.accounts[tx.from].balance < tx.value THEN "Insufficient balance"
    ELSE "ok"

checkTip(s, tx, tipTx) ==
    IF ~ (tipTx.signed /\ tipTx.from = tx.from)
    THEN "Tip transaction sender mismatch"
    ELSE IF countQuorum(getVotes(s, tx.from, tipTx.nonce), Some(tipTx.hash))
                < NOTARISATION_QUORUM
    THEN "Tip transaction doesn't have notarisation quorum"
    ELSE IF \E k \in (tipTx.nonce + 1) .. (tx.nonce - 1) :
                countQuorum(getVotes(s, tx.from, k), Null) < NOTARISATION_QUORUM
    THEN "Intermediate nonce missing bot certificate"
    ELSE "ok"

validateRecovery(s, tx) ==
    IF tx.data = Null THEN "Recovery transaction missing tip"
    ELSE With(TransactionFrom(tx.data[1]), LAMBDA tipTx : checkTip(s, tx, tipTx))

(* txError checking the nonce before the pending flag (a variant used to  *)
(* test C13).                                                              *)
txErrorNonceFirst(s, tx) ==
    IF ~ tx.signed THEN "Invalid transaction signature"
    ELSE IF tx.nonce # s.accounts[tx.from].nonce THEN "Nonce mismatch"
    ELSE IF s.accounts[tx.from].pending THEN "Account has pending transaction"
    ELSE IF tx.to = RECOVERY_CONTRACT THEN validateRecovery(s, tx)
    ELSE validatePayment(s, tx)

(* txError without the pending check (a variant used to test C10).        *)
txErrorNoPending(s, tx) ==
    IF ~ tx.signed THEN "Invalid transaction signature"
    ELSE IF tx.nonce # s.accounts[tx.from].nonce THEN "Nonce mismatch"
    ELSE IF tx.to = RECOVERY_CONTRACT THEN validateRecovery(s, tx)
    ELSE validatePayment(s, tx)

(* The error onTransaction throws for signedTx, or "ok".                   *)
txError(s, tx) ==
    IF ~ tx.signed THEN "Invalid transaction signature"
    ELSE IF s.accounts[tx.from].pending THEN "Account has pending transaction"
    ELSE IF tx.nonce # s.accounts[tx.from].nonce THEN "Nonce mismatch"
    ELSE IF tx.to = RECOVERY_CONTRACT THEN validateRecovery(s, tx)
    ELSE validatePayment(s, tx)

onTransactionError(s, signedTx) ==
    With(TransactionFrom(signedTx), LAMBDA tx : txError(s, tx))

acceptTransaction(s, self, tx) ==
    With(signVote(self, tx.from, tx.nonce, Some(tx)), LAMBDA vote :
        With(onVote(setPending(s, tx.from, TRUE), self, vote), LAMBDA sv :
            broadcastVote(sv, vote)))

(***************************************************************************)
(* The handlers up to their first await.  onTransaction validates, marks   *)
(* the account pending and awaits signVote (lines 93-119); the bottom rule *)
(* of processCertificate marks the account pending and awaits signVote     *)
(* (lines 208-212).  A handler suspended there resumes with                *)
(* onVote(its vote) and then hands the vote to the broadcast callback.     *)
(* In the states below, broadcast holds the votes being signed by          *)
(* suspended handlers.  The finality rule that follows the bottom rule in  *)
(* processCertificate uses the quorum computed before the await, which is  *)
(* below n - 3f, so it does nothing when the handler resumes.              *)
(***************************************************************************)
castBotBegin(s, self, account, nonce) ==
    broadcastVote(setPending(s, account, TRUE), signVote(self, account, nonce, Null))

handleCurrentNonceStep(s, self, votes, account, nonce, quorum) ==
    IF nonce # s.accounts[account].nonce THEN s
    ELSE IF quorum < NOTARISATION_QUORUM
    THEN IF ~ hasOwnBot(self, votes) THEN castBotBegin(s, self, account, nonce) ELSE s
    ELSE IF s.accounts[account].pending
    THEN advanceNonce(s, account, nonce)
    ELSE s

processCertificateStep(s, self, votes) ==
    With(getMaxQuorumCert(votes, 1), LAMBDA mq :
        With(handleCurrentNonceStep(s, self, votes, votes[1].account,
                                    votes[1].nonce, mq.quorum),
             LAMBDA s1 :
                handleFinality(s1, votes[1].account, votes[1].nonce,
                               mq.quorum, mq.tx)))

onVoteStep(s, self, vote) ==
    IF onVoteThrows(vote) THEN s
    ELSE IF isDropped(s.voteStore[vote.account][vote.nonce], vote) THEN s
    ELSE IF /\ vote.nonce = s.accounts[vote.account].nonce
            /\ Len(s.voteStore[vote.account][vote.nonce]) + 1 >= FINALITY_QUORUM
    THEN With(pushVote(s, vote), LAMBDA s1 :
            processCertificateStep(s1, self, s1.voteStore[vote.account][vote.nonce]))
    ELSE pushVote(s, vote)

(* onTransaction marking the account pending only after signVote has       *)
(* returned (a variant used to test C35).                                  *)
onTransactionBeginPendingLate(s, self, signedTx) ==
    With(TransactionFrom(signedTx), LAMBDA tx :
        IF txError(s, tx) # "ok" THEN s
        ELSE broadcastVote(s, signVote(self, tx.from, tx.nonce, Some(tx))))

onTransactionBegin(s, self, signedTx) ==
    With(TransactionFrom(signedTx), LAMBDA tx :
        IF txError(s, tx) # "ok" THEN s
        ELSE broadcastVote(setPending(s, tx.from, TRUE),
                           signVote(self, tx.from, tx.nonce, Some(tx))))

(* onTransaction marking the account pending before the transaction is    *)
(* validated (a variant used to test C9).                                  *)
onTransactionMarksFirst(s, self, signedTx) ==
    With(TransactionFrom(signedTx), LAMBDA tx :
        IF ~ tx.signed THEN s
        ELSE IF \/ s.accounts[tx.from].pending
                \/ tx.nonce # s.accounts[tx.from].nonce
        THEN s
        ELSE IF txError(s, tx) # "ok" THEN setPending(s, tx.from, TRUE)
        ELSE acceptTransaction(s, self, tx))

onTransaction(s, self, signedTx) ==
    With(TransactionFrom(signedTx), LAMBDA tx :
        IF txError(s, tx) # "ok" THEN s ELSE acceptTransaction(s, self, tx))

(***************************************************************************)
(* ClassicValidatorCore (classic-validator-core.ts): one quorum, n - f     *)
(* with f = floor((n - 1) / 3), no bottom votes and no recovery.  A core   *)
(* has the fields of a ValidatorCore.                                      *)
(***************************************************************************)
classicByzantine == (N_VALIDATORS - 1) \div 3
classicFinalityQuorum == N_VALIDATORS - classicByzantine

classicTxError(s, tx) ==
    IF ~ tx.signed THEN "Invalid transaction signature"
    ELSE IF s.accounts[tx.from].pending THEN "Account has pending transaction"
    ELSE IF tx.nonce # s.accounts[tx.from].nonce THEN "Nonce mismatch"
    ELSE IF s.accounts[tx.from].balance < tx.value THEN "Insufficient balance"
    ELSE "ok"

classicOnTransactionError(s, signedTx) ==
    With(TransactionFrom(signedTx), LAMBDA tx : classicTxError(s, tx))

classicFinalise(s, account, nonce, tx) ==
    advanceNonce([executeTransfer(s, tx) EXCEPT
                     !.accounts[account].finalised = nonce], account, nonce)

classicProcessCertificate(s, account, nonce) ==
    With(getMaxQuorumCert(getVotes(s, account, nonce), 1), LAMBDA mq :
        IF /\ nonce = s.accounts[account].nonce
           /\ mq.quorum >= classicFinalityQuorum
           /\ mq.tx # Null
        THEN classicFinalise(s, account, nonce, mq.tx[1])
        ELSE s)

classicOnTransaction(s, self, signedTx) ==
    With(TransactionFrom(signedTx), LAMBDA tx :
        IF classicTxError(s, tx) # "ok" THEN s
        ELSE With(signVote(self, tx.from, tx.nonce, Some(tx)), LAMBDA vote :
                broadcastVote(
                    classicProcessCertificate(
                        pushVote(setPending(s, tx.from, TRUE), vote),
                        vote.account, vote.nonce),
                    vote)))

classicIsDropped(existing, vote) ==
    \E i \in 1 .. Len(existing) : existing[i].validator = vote.validator

classicOnVote(s, self, vote) ==
    IF onVoteThrows(vote) THEN s
    ELSE IF classicIsDropped(s.voteStore[vote.account][vote.nonce], vote) THEN s
    ELSE classicProcessCertificate(pushVote(s, vote), vote.account, vote.nonce)

(***************************************************************************)
(* getRecoveryInfo (validator-core.ts) and the client's use of it          *)
(* (client.ts).  The snapshot is a record; error is the message of the     *)
(* exception getRecoveryInfo throws, or "ok".  chain[i] is the entry for   *)
(* nonce finalisedNonce + i.                                               *)
(***************************************************************************)
finalisedCert(s, account) ==
    IF s.accounts[account].finalised >= 0
    THEN With(getMaxQuorumCert(getVotes(s, account, s.accounts[account].finalised),
                               FINALITY_QUORUM),
              LAMBDA mq : IF mq.tx # Null /\ mq.cert # Null
                          THEN [tx |-> Some(mq.tx[1].serialized), cert |-> mq.cert]
                          ELSE [tx |-> Null, cert |-> Null])
    ELSE [tx |-> Null, cert |-> Null]

chainEntry(s, account, k) ==
    With(getMaxQuorumCert(getVotes(s, account, k), NOTARISATION_QUORUM),
         LAMBDA mq :
            [nonce |-> k,
             serializedTx |-> IF mq.tx = Null THEN Null
                              ELSE Some(mq.tx[1].serialized),
             cert |-> mq.cert])

getRecoveryInfo(s, account) ==
    With([i \in 1 .. (s.accounts[account].nonce - s.accounts[account].finalised - 1)
             |-> chainEntry(s, account, s.accounts[account].finalised + i)],
         LAMBDA chain :
            With(finalisedCert(s, account), LAMBDA fin :
                [error |-> IF \E i \in 1 .. Len(chain) : chain[i].cert = Null
                           THEN "Missing notarisation certificate" ELSE "ok",
                 finalisedNonce |-> s.accounts[account].finalised,
                 serializedFinalisedTx |-> fin.tx,
                 finalityCert |-> fin.cert,
                 currentNonce |-> s.accounts[account].nonce,
                 chain |-> chain]))

(* Client.findTipTransaction on the response of one validator: the last    *)
(* chain entry that is not bottom, else the finalised transaction, else    *)
(* null.                                                                   *)
findTipTransaction(info) ==
    IF \E i \in 1 .. Len(info.chain) : info.chain[i].serializedTx # Null
    THEN info.chain[CHOOSE i \in 1 .. Len(info.chain) :
                       /\ info.chain[i].serializedTx # Null
                       /\ \A j \in (i + 1) .. Len(info.chain) :
                              info.chain[j].serializedTx = Null].serializedTx
    ELSE info.serializedFinalisedTx

(* Client.initiateRecovery: the serializations of the recovery the client  *)
(* signs for the snapshot (none when there is no tip).                     *)
initiateRecovery(info) ==
    IF findTipTransaction(info) = Null THEN {}
    ELSE {t \in DOMAIN Decoded :
             Decoded[t] = Recovery(info.currentNonce, findTipTransaction(info)[1])}

(***************************************************************************)
(* State.  Each variable is a function of the validator ids of the cores   *)
(* under test.  accounts and voteStore are the two maps of ValidatorCore;  *)
(* executed and accepted are histories (the executeTransfer calls, the     *)
(* transactions onTransaction returned a vote for); result is the outcome  *)
(* of the last handler call; inflight holds the broadcast votes on their   *)
(* way to another core.                                                    *)
(***************************************************************************)
VARIABLES accounts, voteStore, executed, accepted, result, inflight, calls

vars == <<accounts, voteStore, executed, accepted, result, inflight, calls>>

Cores == DOMAIN accounts

CoreState(c) ==
    [accounts |-> accounts[c], voteStore |-> voteStore[c],
     executed |-> executed[c], broadcast |-> <<>>]

(* calls counts the handler calls that changed a core.  The votes handed   *)
(* to broadcastVoteCallback travel to the other cores under test.          *)
Install(c, s) ==
    /\ accounts'  = [accounts  EXCEPT ![c] = s.accounts]
    /\ voteStore' = [voteStore EXCEPT ![c] = s.voteStore]
    /\ executed'  = [executed  EXCEPT ![c] = s.executed]
    /\ calls' = IF s.accounts = accounts[c] /\ s.voteStore = voteStore[c]
                THEN calls ELSE calls + 1

Sent(c, s) ==
    {[to |-> d, vote |-> s.broadcast[i]] :
        d \in Cores \ {c}, i \in 1 .. Len(s.broadcast)}

(* A run makes at most MaxCalls calls that change a core.                  *)
WithinBudget == calls' <= MaxCalls

(***************************************************************************)
(* The transactions the client signs.                                      *)
(***************************************************************************)
VotedTxs == {"P0a", "P0b", "P1", "R1a", "R1b", "P2", "R2a", "R2n"}

Transactions == DOMAIN Decoded

(***************************************************************************)
(* The votes the environment can deliver to core c.                        *)
(*  - PeerVotes: a vote of a peer (a validator that is not a core under    *)
(*    test) at the current nonce of the account, for any payload; a peer   *)
(*    that has not voted at an earlier or at the next nonce can also vote  *)
(*    there (a late vote, a vote ahead, at most MaxAhead of them).         *)
(*  - ReplayedVotes: a stored vote arrives again under another spelling   *)
(*    of its validator address (the signature does not cover that field), *)
(*    at most MaxReplays per nonce.                                        *)
(* Peers are interchangeable, and so are spellings and the votes for one   *)
(* payload: the next peer is the lowest unused id, the next spelling the   *)
(* lowest unused one, and the vote that is replayed or followed by the     *)
(* same peer's bottom vote is the first one stored for its payload.        *)
(***************************************************************************)
PayloadsAt(k) ==
    {Null} \cup {Some(TransactionFrom(t)) :
                    t \in {u \in VotedTxs : Decoded[u].nonce = k}}

Respell(vote, sp) == [vote EXCEPT !.validator = <<@[1], sp>>]

Stored(c, k) == voteStore[c][Client][k]

Present(c, k) == {Stored(c, k)[i].validator : i \in 1 .. Len(Stored(c, k))}

Peers == ValidatorIds \ Cores

FreshPeer(c, k) ==
    {id \in Peers : /\ \A v \in Present(c, k) : v[1] # id
                    /\ \A q \in Peers : q < id => \E v \in Present(c, k) : v[1] = q}

(* The first stored vote for each payload for which P holds.               *)
FirstWhere(c, k, P(_)) ==
    {i \in 1 .. Len(Stored(c, k)) :
        /\ P(Stored(c, k)[i])
        /\ \A j \in 1 .. (i - 1) :
               P(Stored(c, k)[j]) =>
                   Stored(c, k)[j].serializedTx # Stored(c, k)[i].serializedTx}

HasBottom(c, k, validator) ==
    \E i \in 1 .. Len(Stored(c, k)) :
        Stored(c, k)[i].validator = validator /\ Stored(c, k)[i].serializedTx = Null

Respelled(c, k) == {v \in Present(c, k) : v[2] # 0}

CurrentNonce(c) == accounts[c][Client].nonce

PeerVotes(c) ==
    LET now == CurrentNonce(c)
        first(k) == {signVote(id, Client, k, pl) :
                        id \in FreshPeer(c, k), pl \in PayloadsAt(k)}
        second(k) ==
            {signVote(Stored(c, k)[i].validator[1], Client, k, Null) :
                i \in FirstWhere(c, k,
                        LAMBDA v : /\ v.validator[1] \in Peers
                                   /\ v.validator[2] = 0
                                   /\ v.serializedTx # Null
                                   /\ ~ HasBottom(c, k, v.validator))}
    IN  UNION {first(k) \cup second(k) : k \in {now} \cap Nonces}
        \cup UNION {first(k) : k \in {j \in Nonces : j < now}}
        \cup UNION {first(k) : k \in {j \in Nonces :
                                          j = now + 1 /\ Len(Stored(c, j)) < MaxAhead}}

ReplayedVotes(c) ==
    UNION {{Respell(Stored(c, k)[i], Stored(c, k)[i].validator[2] + 1) :
                i \in FirstWhere(c, k,
                        LAMBDA v : /\ v.validator[2] + 1 \in Spellings
                                   /\ <<v.validator[1], v.validator[2] + 1>>
                                          \notin Present(c, k))} :
           k \in {j \in Nonces : /\ j <= CurrentNonce(c)
                                  /\ Cardinality(Respelled(c, j)) < MaxReplays}}

ForgedVotes ==
    {[signVote(2, Client, 0, Some(TransactionFrom("P0a"))) EXCEPT
                                          !.validator = Address(3)],
     [signVote(2, Client, 0, Null) EXCEPT !.nonce = 1],
     [signVote(2, Client, 0, Null) EXCEPT !.validator = Address(Outsider),
                                          !.signature.signer = Outsider]}

(***************************************************************************)
(* Actions: one per handler call.  result records the handler called last, *)
(* the error it threw ("ok" when it returned), and whether its argument    *)
(* had been accepted by an earlier call (replay): for onTransaction the    *)
(* transaction had been voted for, for onVote the vote is in the store.    *)
(***************************************************************************)
OnTransaction(c, tx) ==
    \E s0 \in {CoreState(c)} :
    \E s \in {onTransaction(s0, c, tx)} :
    \E error \in {onTransactionError(s0, tx)} :
        /\ Install(c, s)
        /\ accepted' = IF error = "ok"
                       THEN [accepted EXCEPT ![c] = @ \cup {tx}]
                       ELSE accepted
        /\ result' = [op |-> "onTransaction", error |-> error,
                      replay |-> tx \in accepted[c]]
        /\ inflight' = inflight \cup Sent(c, s)

(* onVote(vote) at core c; delivered is the set of messages in flight that *)
(* this call consumes (empty when the vote comes from the environment).    *)
OnVoteFrom(c, vote, delivered) ==
    \E s0 \in {CoreState(c)} :
    \E s \in {onVote(s0, c, vote)} :
        /\ Install(c, s)
        /\ result' = [op |-> "onVote", error |-> onVoteError(vote),
                      replay |-> \E i \in 1 .. Len(s0.voteStore[vote.account][vote.nonce]) :
                                    s0.voteStore[vote.account][vote.nonce][i] = vote]
        /\ inflight' = (inflight \ delivered) \cup Sent(c, s)
        /\ UNCHANGED accepted

OnVote(c, vote) == OnVoteFrom(c, vote, {})

(***************************************************************************)
(* Checkpoints: states of a core reached by a fixed sequence of calls,     *)
(* computed with the handlers themselves.  A specification starts from the *)
(* fresh core or from a checkpoint and then runs MaxCalls further calls.   *)
(***************************************************************************)
Self == 1

RECURSIVE Run(_, _, _)
Run(s, self, script) ==
    IF script = <<>> THEN s
    ELSE With(IF script[1][1] = "tx" THEN onTransaction(s, self, script[1][2])
              ELSE onVote(s, self, script[1][2]),
              LAMBDA s1 : Run([s1 EXCEPT !.broadcast = <<>>], self, Tail(script)))

PeerVote(id, k, t) ==
    <<"vote", signVote(id, Client, k,
                       IF t = "" THEN Null ELSE Some(TransactionFrom(t)))>>

PaymentFinalised ==
    <<<<"tx", "P0a">>, PeerVote(2, 0, "P0a"), PeerVote(3, 0, "P0a"),
      PeerVote(4, 0, "P0a"), PeerVote(5, 0, "P0a")>>

(* One vote short of n - f votes at nonce 0, all for one payment that the  *)
(* core itself has not received.                                           *)
PaymentVoted ==
    <<PeerVote(2, 0, "P0a"), PeerVote(3, 0, "P0a"), PeerVote(4, 0, "P0a"),
      PeerVote(5, 0, "P0a")>>

(* One vote short of n - f votes at nonce 0, split over two payments and   *)
(* bottom.                                                                 *)
PaymentSplit ==
    <<<<"tx", "P0a">>, PeerVote(2, 0, "P0b"), PeerVote(3, 0, "P0b"),
      PeerVote(4, 0, "")>>

(* Nonce 0 finalised; one vote short of n - f votes at nonce 1, split.     *)
SplitAfterPayment ==
    PaymentFinalised \o
    <<<<"tx", "P1">>, PeerVote(2, 1, ""), PeerVote(3, 1, "R1a"),
      PeerVote(4, 1, "R1a")>>

(* Nonce 1 passed by a bottom notarisation; one vote short of n - f votes  *)
(* for a recovery at nonce 2 whose tip is the payment executed at nonce 0, *)
(* which the core itself has not received.                                 *)
RecoveryVoted ==
    SplitAfterPayment \o
    <<PeerVote(5, 1, ""), PeerVote(2, 2, "R2a"), PeerVote(3, 2, "R2a"),
      PeerVote(4, 2, "R2a"), PeerVote(5, 2, "R2a")>>

Checkpoints ==
    {<<>>, PaymentVoted, PaymentSplit, SplitAfterPayment, RecoveryVoted}

InitFrom(c, script) ==
    \E s \in {Run(NewCore, c, script)} :
        /\ accounts  = (c :> s.accounts)
        /\ voteStore = (c :> s.voteStore)
        /\ executed  = (c :> s.executed)
        /\ accepted  = (c :> {script[i][2] : i \in {j \in 1 .. Len(script) :
                                                        script[j][1] = "tx"}})
        /\ result    = [op |-> "new", error |-> "ok", replay |-> FALSE]
        /\ inflight  = {}
        /\ calls     = 0

Init == \E script \in Checkpoints : InitFrom(Self, script)

Txs == {t \in Transactions : Decoded[t].nonce \in Nonces}

ClientSubmits == \E tx \in Txs : OnTransaction(Self, tx) /\ WithinBudget

PeerVoteArrives ==
    \E vote \in PeerVotes(Self) : OnVote(Self, vote) /\ WithinBudget

ReplayedVoteArrives ==
    \E vote \in ReplayedVotes(Self) : OnVote(Self, vote) /\ WithinBudget

ForgedVoteArrives ==
    \E vote \in ForgedVotes : OnVote(Self, vote) /\ WithinBudget

Next ==
    \/ ClientSubmits
    \/ PeerVoteArrives
    \/ ReplayedVoteArrives
    \/ ForgedVoteArrives

Spec == Init /\ [][Next]_vars

(***************************************************************************)
(* SpecNet: two correct validators (cores 1 and 2) of the six, with an     *)
(* equivocating client and one Byzantine validator.  The client sent P0a   *)
(* to validators 1, 3, 4 and P0b to validators 2, 5; the Byzantine         *)
(* validator voted for P0a towards core 1 and for P0b towards core 2.      *)
(* Each core has received the transaction and the votes of the validators  *)
(* on its side; the votes of the other side are in flight.  From there:    *)
(* votes in flight are delivered in any order, the client submits any      *)
(* transaction to either core, the Byzantine validator sends any validly   *)
(* signed vote to either core, and stored votes are replayed under another *)
(* spelling of their validator address.                                    *)
(***************************************************************************)
Other == 2

Byzantine == N_VALIDATORS

SideOfSelf ==
    <<<<"tx", "P0a">>, PeerVote(3, 0, "P0a"), PeerVote(4, 0, "P0a"),
      PeerVote(Byzantine, 0, "P0a")>>

SideOfOther ==
    <<<<"tx", "P0b">>, PeerVote(5, 0, "P0b"), PeerVote(Byzantine, 0, "P0b")>>

VotesOf(to, script, voters) ==
    {[to |-> to, vote |-> script[i][2]] :
        i \in {j \in 1 .. Len(script) :
                  script[j][1] = "vote" /\ script[j][2].validator[1] \in voters}}

InitNet ==
    \E s1 \in {Run(NewCore, Self, SideOfSelf)} :
    \E s2 \in {Run(NewCore, Other, SideOfOther)} :
        /\ accounts  = (Self :> s1.accounts) @@ (Other :> s2.accounts)
        /\ voteStore = (Self :> s1.voteStore) @@ (Other :> s2.voteStore)
        /\ executed  = (Self :> s1.executed) @@ (Other :> s2.executed)
        /\ accepted  = (Self :> {"P0a"}) @@ (Other :> {"P0b"})
        /\ result    = [op |-> "new", error |-> "ok", replay |-> FALSE]
        /\ inflight  =
              VotesOf(Other, SideOfSelf, {3, 4}) \cup VotesOf(Self, SideOfOther, {5})
              \cup {[to |-> Other,
                     vote |-> signVote(Self, Client, 0, Some(TransactionFrom("P0a")))],
                    [to |-> Self,
                     vote |-> signVote(Other, Client, 0, Some(TransactionFrom("P0b")))]}
        /\ calls     = 0

ByzantineVotes(c) ==
    {signVote(Byzantine, Client, CurrentNonce(c), pl) :
        pl \in PayloadsAt(CurrentNonce(c))}

VoteDelivered ==
    \E m \in inflight : OnVoteFrom(m.to, m.vote, {m}) /\ WithinBudget

ClientSubmitsNet ==
    \E c \in Cores, tx \in Txs : OnTransaction(c, tx) /\ WithinBudget

ByzantineVoteArrives ==
    \E c \in Cores : \E vote \in ByzantineVotes(c) :
        OnVote(c, vote) /\ WithinBudget

ReplayedVoteArrivesNet ==
    \E c \in Cores : \E vote \in ReplayedVotes(c) :
        OnVote(c, vote) /\ WithinBudget

NextNet ==
    \/ VoteDelivered
    \/ ClientSubmitsNet
    \/ ByzantineVoteArrives
    \/ ReplayedVoteArrivesNet

SpecNet == InitNet /\ [][NextNet]_vars

(***************************************************************************)
(* SpecLive: one core that lags behind.  The payment at nonce 0 has four   *)
(* votes at the core and the fifth is in flight; the other validators have *)
(* finalised nonce 0 already and voted at nonce 1, where the client        *)
(* equivocated: three of those votes reached the core early, two are in    *)
(* flight.  The validators that voted for a transaction at nonce 1 cast    *)
(* their bottom vote once they see the split.  Every vote in flight is     *)
(* eventually delivered, and every such validator eventually casts bottom. *)
(***************************************************************************)
LaggingCore ==
    <<PeerVote(2, 0, "P0a"), PeerVote(3, 0, "P0a"), PeerVote(4, 0, "P0a"),
      PeerVote(5, 0, "P0a"),
      PeerVote(2, 1, "P1"), PeerVote(3, 1, "P1"), PeerVote(4, 1, "R1a")>>

StillInFlight ==
    <<PeerVote(Byzantine, 0, "P0a"), PeerVote(5, 1, "R1a"),
      PeerVote(Byzantine, 1, "")>>

InitLive ==
    \E s \in {Run(NewCore, Self, LaggingCore)} :
        /\ accounts  = (Self :> s.accounts)
        /\ voteStore = (Self :> s.voteStore)
        /\ executed  = (Self :> s.executed)
        /\ accepted  = (Self :> {})
        /\ result    = [op |-> "new", error |-> "ok", replay |-> FALSE]
        /\ inflight  = VotesOf(Self, StillInFlight, ValidatorIds)
        /\ calls     = 0

(* The votes for account a at nonce k that exist for core c: stored at c   *)
(* or in flight to c.                                                      *)
Existing(c, a, k) ==
    {voteStore[c][a][k][i] : i \in 1 .. Len(voteStore[c][a][k])}
    \cup {m.vote : m \in {x \in inflight : /\ x.to = c
                                            /\ x.vote.account = a
                                            /\ x.vote.nonce = k}}

VotersOf(votes) == {v.validator[1] : v \in votes}

CastTransactionVote(c, k) ==
    VotersOf({v \in Existing(c, Client, k) : v.serializedTx # Null})

CastBottom(c, k) ==
    VotersOf({v \in Existing(c, Client, k) : v.serializedTx = Null})

VoteDeliveredLive == \E m \in inflight : OnVoteFrom(m.to, m.vote, {m})

PeerCastsBottom ==
    \E id \in CastTransactionVote(Self, 1) \ CastBottom(Self, 1) :
        /\ inflight' = inflight \cup
                           {[to |-> Self, vote |-> signVote(id, Client, 1, Null)]}
        /\ UNCHANGED <<accounts, voteStore, executed, accepted, result, calls>>

NextLive ==
    \/ VoteDeliveredLive
    \/ PeerCastsBottom

SpecLive ==
    /\ InitLive
    /\ [][NextLive]_vars
    /\ WF_vars(VoteDeliveredLive)
    /\ WF_vars(PeerCastsBottom)

(***************************************************************************)
(* Late bottom votes.  Nonce 0 is finalised at validator-0 with the votes  *)
(* of exactly n - f validators for the payment P0a, behind a bottom vote   *)
(* of validator 2, which voted for another payment of an equivocating      *)
(* client; validator 3 has voted for P0a and then bottom.  The validators  *)
(* that voted for P0a cast bottom in their own views, and those bottom     *)
(* votes reach validator-0 after it has finalised.                         *)
(***************************************************************************)
FinalisedBehindBottom ==
    <<PeerVote(2, 0, ""), PeerVote(3, 0, "P0a"), PeerVote(3, 0, ""),
      PeerVote(4, 0, "P0a"), PeerVote(5, 0, "P0a"), PeerVote(6, 0, "P0a"),
      <<"tx", "P0a">>>>

InitLate == InitFrom(Self, FinalisedBehindBottom)

(* The bottom vote, at a nonce the core has passed, of a peer whose        *)
(* transaction vote is stored there.                                       *)
LateBottomVotes(c) ==
    UNION {{signVote(Stored(c, k)[i].validator[1], Client, k, Null) :
                i \in FirstWhere(c, k,
                        LAMBDA v : /\ v.validator[1] \in Peers
                                   /\ v.validator[2] = 0
                                   /\ v.serializedTx # Null
                                   /\ ~ HasBottom(c, k, v.validator))} :
           k \in {j \in Nonces : j < CurrentNonce(c)}}

LateBottomArrives ==
    \E vote \in LateBottomVotes(Self) : OnVote(Self, vote) /\ WithinBudget

NextLate ==
    \/ ClientSubmits
    \/ PeerVoteArrives
    \/ LateBottomArrives

SpecLate == InitLate /\ [][NextLate]_vars

(***************************************************************************)
(* Votes with a foreign payload.  onVote checks the signature of a vote    *)
(* over (account, nonce, transaction hash), never that the transaction     *)
(* carried has that nonce.  The Byzantine validator votes at the current   *)
(* nonce of the client account for a transaction of another nonce, under   *)
(* each spelling of its address.  Validator-0 has voted for P0a and holds  *)
(* the vote of validator 2 for it.                                         *)
(***************************************************************************)
PaymentUnderWay == <<<<"tx", "P0a">>, PeerVote(2, 0, "P0a")>>

InitTip == InitFrom(Self, PaymentUnderWay)

MismatchedVotes(c) ==
    {Respell(signVote(Byzantine, Client, CurrentNonce(c),
                      Some(TransactionFrom(t))), sp) :
        t \in {u \in VotedTxs : Decoded[u].nonce # CurrentNonce(c)},
        sp \in {q \in Spellings :
                   /\ <<Byzantine, q>> \notin Present(c, CurrentNonce(c))
                   /\ \A r \in Spellings :
                         r < q => <<Byzantine, r>> \in Present(c, CurrentNonce(c))}}

MismatchedVoteArrives ==
    /\ CurrentNonce(Self) \in Nonces
    /\ \E vote \in MismatchedVotes(Self) : OnVote(Self, vote) /\ WithinBudget

NextTip ==
    \/ ClientSubmits
    \/ PeerVoteArrives
    \/ MismatchedVoteArrives

SpecTip == InitTip /\ [][NextTip]_vars

(***************************************************************************)
(* Payments of two accounts.  The payment P0a of the client to the         *)
(* recipient is finalised at every validator.  The recipient pays the      *)
(* amount back (Q0) and the client then spends its whole genesis balance   *)
(* (P1x).  The other validators are correct: they vote for P1x after they  *)
(* have executed Q0.  Their votes for the two accounts reach validator-0   *)
(* in any order.                                                           *)
(***************************************************************************)
InitPay == InitFrom(Self, PaymentFinalised)

FreshPeerFor(c, account, k) ==
    {id \in Peers :
        /\ \A i \in 1 .. Len(voteStore[c][account][k]) :
               voteStore[c][account][k][i].validator[1] # id
        /\ \A q \in Peers :
               q < id => \E i \in 1 .. Len(voteStore[c][account][k]) :
                            voteStore[c][account][k][i].validator[1] = q}

PeerVotesRefund ==
    \E id \in FreshPeerFor(Self, Recipient, Decoded["Q0"].nonce) :
        OnVote(Self, signVote(id, Recipient, Decoded["Q0"].nonce,
                              Some(TransactionFrom("Q0"))))

PeerVotesPayment ==
    \E id \in FreshPeerFor(Self, Client, Decoded["P1x"].nonce) :
        OnVote(Self, signVote(id, Client, Decoded["P1x"].nonce,
                              Some(TransactionFrom("P1x"))))

(* The client may instead pay itself at nonce 1 (S1).                      *)
PeerVotesSelfPayment ==
    \E id \in FreshPeerFor(Self, Client, Decoded["S1"].nonce) :
        OnVote(Self, signVote(id, Client, Decoded["S1"].nonce,
                              Some(TransactionFrom("S1"))))

ClientSubmitsPay ==
    \E tx \in {"Q0", "P1x", "S1"} : tx \in Txs /\ OnTransaction(Self, tx)

NextPay ==
    \/ PeerVotesRefund
    \/ PeerVotesPayment
    \/ PeerVotesSelfPayment
    \/ ClientSubmitsPay

SpecPay == InitPay /\ [][NextPay]_vars

(***************************************************************************)
(* A ClassicValidatorCore and its environment: the client, the other       *)
(* validators voting for payments at the current nonce, and votes sent     *)
(* again under another spelling of the validator's address.                *)
(***************************************************************************)
ClassicOnTransaction(c, tx) ==
    \E s0 \in {CoreState(c)} :
    \E s \in {classicOnTransaction(s0, c, tx)} :
    \E error \in {classicOnTransactionError(s0, tx)} :
        /\ Install(c, s)
        /\ accepted' = IF error = "ok"
                       THEN [accepted EXCEPT ![c] = @ \cup {tx}]
                       ELSE accepted
        /\ result' = [op |-> "onTransaction", error |-> error,
                      replay |-> tx \in accepted[c]]
        /\ inflight' = inflight \cup Sent(c, s)

ClassicOnVote(c, vote) ==
    \E s0 \in {CoreState(c)} :
    \E s \in {classicOnVote(s0, c, vote)} :
        /\ Install(c, s)
        /\ result' = [op |-> "onVote", error |-> onVoteError(vote),
                      replay |-> \E i \in 1 .. Len(s0.voteStore[vote.account][vote.nonce]) :
                                    s0.voteStore[vote.account][vote.nonce][i] = vote]
        /\ inflight' = inflight \cup Sent(c, s)
        /\ UNCHANGED accepted

RECURSIVE RunClassic(_, _, _)
RunClassic(s, self, script) ==
    IF script = <<>> THEN s
    ELSE With(IF script[1][1] = "tx"
              THEN classicOnTransaction(s, self, script[1][2])
              ELSE classicOnVote(s, self, script[1][2]),
              LAMBDA s1 : RunClassic([s1 EXCEPT !.broadcast = <<>>], self,
                                     Tail(script)))

(* The votes at nonce 0 split three to three over two payments.            *)
ClassicSplit ==
    <<<<"tx", "P0a">>, PeerVote(2, 0, "P0a"), PeerVote(3, 0, "P0a"),
      PeerVote(4, 0, "P0b"), PeerVote(5, 0, "P0b"), PeerVote(6, 0, "P0b")>>

ClassicCheckpoints == {<<>>, PaymentVoted, PaymentFinalised, ClassicSplit}

InitClassic ==
    \E script \in ClassicCheckpoints :
    \E s \in {RunClassic(NewCore, Self, script)} :
        /\ accounts  = (Self :> s.accounts)
        /\ voteStore = (Self :> s.voteStore)
        /\ executed  = (Self :> s.executed)
        /\ accepted  = (Self :> {script[i][2] : i \in {j \in 1 .. Len(script) :
                                                           script[j][1] = "tx"}})
        /\ result    = [op |-> "new", error |-> "ok", replay |-> FALSE]
        /\ inflight  = {}
        /\ calls     = 0

ClassicPeerVotes(c) ==
    UNION {{signVote(id, Client, k, pl) :
                id \in FreshPeer(c, k), pl \in PayloadsAt(k) \ {Null}} :
           k \in {CurrentNonce(c)} \cap Nonces}

ClientSubmitsClassic ==
    \E tx \in Txs : ClassicOnTransaction(Self, tx) /\ WithinBudget

PeerVoteArrivesClassic ==
    \E vote \in ClassicPeerVotes(Self) : ClassicOnVote(Self, vote) /\ WithinBudget

ReplayedVoteArrivesClassic ==
    \E vote \in ReplayedVotes(Self) : ClassicOnVote(Self, vote) /\ WithinBudget

NextClassic ==
    \/ ClientSubmitsClassic
    \/ PeerVoteArrivesClassic
    \/ ReplayedVoteArrivesClassic

SpecClassic == InitClassic /\ [][NextClassic]_vars

(***************************************************************************)
(* SpecServer: a ValidatorServer, the binding of one core to the network.  *)
(* eth_sendRawTransaction runs the core's onTransaction, which hands its   *)
(* vote to the broadcast callback and awaits what the callback returns.    *)
(* The callback calls broadcastVote, which posts submitVote to every peer  *)
(* without awaiting a request.  A request stays "sent" until the peer      *)
(* answers it or the connection fails; a peer may never do either.         *)
(* result.op is "broadcastVoteCallback" while the handler is suspended at  *)
(* that await and "onTransaction" once it has returned the vote.           *)
(***************************************************************************)
serverPeers(c) == ValidatorIds \ {c}

requests(c, s) ==
    {[to |-> d, vote |-> s.broadcast[i], state |-> "sent"] :
        d \in serverPeers(c), i \in 1 .. Len(s.broadcast)}

outstanding == {m \in inflight : m.state = "sent"}

(* The requests whose completion the promise returned by the broadcast     *)
(* callback waits for.                                                     *)
awaitedRequestsAll(sent) == sent

awaitedRequests(sent) == {}

Awaiting == result.op = "broadcastVoteCallback"

InitServer == \E script \in {<<>>, PaymentVoted} : InitFrom(Self, script)

(* The client pays at nonce 0 and then at nonce 1, and may sign a second   *)
(* payment at nonce 0.                                                     *)
ServerTxs == {"P0a", "P0b", "P1"}

ServerReceivesTransaction ==
    \E tx \in ServerTxs :
    \E s0 \in {CoreState(Self)} :
    \E s \in {onTransaction(s0, Self, tx)} :
    \E error \in {onTransactionError(s0, tx)} :
        /\ ~ Awaiting
        /\ Install(Self, s)
        /\ WithinBudget
        /\ accepted' = IF error = "ok"
                       THEN [accepted EXCEPT ![Self] = @ \cup {tx}]
                       ELSE accepted
        /\ result' = [op |-> IF error = "ok" THEN "broadcastVoteCallback"
                             ELSE "onTransaction",
                      error |-> error, replay |-> tx \in accepted[Self]]
        /\ inflight' = inflight \cup requests(Self, s)

ServerResponds ==
    /\ Awaiting
    /\ awaitedRequests(outstanding) = {}
    /\ result' = [result EXCEPT !.op = "onTransaction"]
    /\ UNCHANGED <<accounts, voteStore, executed, accepted, inflight, calls>>

(* The peers are taken in the order of the loop in broadcastVote.          *)
NextRequest(m) ==
    /\ m \in outstanding
    /\ \A x \in outstanding : x.vote = m.vote => x.to >= m.to

PeerAnswers ==
    \E m \in inflight :
        /\ NextRequest(m)
        /\ inflight' = (inflight \ {m}) \cup {[m EXCEPT !.state = "answered"]}
        /\ UNCHANGED <<accounts, voteStore, executed, accepted, result, calls>>

PeerFails ==
    \E m \in inflight :
        /\ NextRequest(m)
        /\ inflight' = (inflight \ {m}) \cup {[m EXCEPT !.state = "failed"]}
        /\ UNCHANGED <<accounts, voteStore, executed, accepted, result, calls>>

NextServer ==
    \/ ServerReceivesTransaction
    \/ ServerResponds
    \/ PeerAnswers
    \/ PeerFails

SpecServer == InitServer /\ [][NextServer]_vars

(***************************************************************************)
(* SpecStart: the standalone validator process.  Its configuration names   *)
(* the protocol (mode), the number of validators n, the Byzantine budget f *)
(* and the index of this validator.  Importing common.ts checks the        *)
(* parameters of the environment; the process then generates n validator   *)
(* keys, constructs the core of its mode and starts the server.  A start   *)
(* that throws leaves no validator behind.                                 *)
(***************************************************************************)
ConfigN == 1 .. (N_VALIDATORS + 1)
ConfigF == 0 .. (F_BYZANTINE + 1)

commonImportError ==
    IF N_VALIDATORS < 5 * F_BYZANTINE + 1 THEN "Invalid config" ELSE "ok"

generateValidatorKeys(count) == 1 .. count

newValidatorCoreError(validators, fByzantine) == "ok"

newClassicValidatorCoreError(validators, fByzantine) ==
    IF Cardinality(validators) < 3 * fByzantine + 1
    THEN "Invalid config" ELSE "ok"

InitStart ==
    /\ accounts  = <<>>
    /\ voteStore = <<>>
    /\ executed  = <<>>
    /\ accepted  = <<>>
    /\ result    = [op |-> "import", error |-> commonImportError, replay |-> FALSE]
    /\ inflight  = {}
    /\ calls     = 0

StartWith(mode, n, f, index, error) ==
    /\ result.op = "import" /\ result.error = "ok"
    /\ result' = [op |-> "new", error |-> error, replay |-> FALSE,
                  mode |-> mode, n |-> n, f |-> f, index |-> index]
    /\ IF error = "ok"
       THEN /\ accounts'  = (index :> NewCore.accounts)
            /\ voteStore' = (index :> NewCore.voteStore)
            /\ executed'  = (index :> NewCore.executed)
            /\ accepted'  = (index :> {})
       ELSE UNCHANGED <<accounts, voteStore, executed, accepted>>
    /\ UNCHANGED <<inflight, calls>>

StartRecoveryValidator ==
    \E n \in ConfigN, f \in ConfigF :
    \E index \in generateValidatorKeys(n) :
        /\ index \in ConfigN
        /\ StartWith("recovery", n, f, index,
                     newValidatorCoreError(generateValidatorKeys(n), f))

StartClassicValidator ==
    \E n \in ConfigN, f \in ConfigF :
    \E index \in generateValidatorKeys(n) :
        /\ index \in ConfigN
        /\ StartWith("classic", n, f, index,
                     newClassicValidatorCoreError(generateValidatorKeys(n), f))

NextStart ==
    \/ StartRecoveryValidator
    \/ StartClassicValidator

SpecStart == InitStart /\ [][NextStart]_vars

(***************************************************************************)
(* SpecFinality: the core one vote short of n - f votes for a transaction  *)
(* at its current nonce, for each relation between the nonce of the chain  *)
(* start and account.finalised: the payment that is next to execute        *)
(* (PaymentVoted), a recovery of the payment executed last (RecoveryVoted) *)
(* and a recovery of a payment executed before the last                    *)
(* (StaleRecoveryVoted).  The environment is that of Spec.                 *)
(***************************************************************************)
StaleRecoveryVoted ==
    PaymentFinalised \o
    <<<<"tx", "P1">>, PeerVote(2, 1, "P1"), PeerVote(3, 1, "P1"),
      PeerVote(4, 1, "P1"), PeerVote(5, 1, "P1"),
      PeerVote(2, 2, "R2a"), PeerVote(3, 2, "R2a"), PeerVote(4, 2, "R2a"),
      PeerVote(5, 2, "R2a")>>

InitFinality ==
    \E script \in {PaymentVoted, RecoveryVoted, StaleRecoveryVoted} :
        InitFrom(Self, script)

SpecFinality == InitFinality /\ [][Next]_vars

(***************************************************************************)
(* SpecRecovery: the core at nonce 1 after the payment P0a is finalised,   *)
(* with votes stored at nonce 1 that notarise, or nearly notarise, a       *)
(* transaction a later recovery can name as its tip: the payment P1        *)
(* (PaymentTipVoted) or the recovery R1a (RecoveryTipVoted).  The          *)
(* environment is that of Spec.                                            *)
(***************************************************************************)
PaymentTipVoted ==
    PaymentFinalised \o <<PeerVote(2, 1, "P1"), PeerVote(3, 1, "P1")>>

RecoveryTipVoted ==
    PaymentFinalised \o
    <<PeerVote(2, 1, "R1a"), PeerVote(3, 1, "R1a"), PeerVote(4, 1, "R1a"),
      PeerVote(5, 1, "R1a")>>

InitRecovery ==
    \E script \in {PaymentTipVoted, RecoveryTipVoted} : InitFrom(Self, script)

SpecRecovery == InitRecovery /\ [][Next]_vars

(***************************************************************************)
(* SpecPair: the core of Spec receiving, at its current nonce and in any   *)
(* order, the transaction vote and the bottom vote of one validator, for   *)
(* two validators.  inflight keeps a record of every vote onVote received. *)
(***************************************************************************)
PairVoters == {Other, Byzantine}

PairTxs == <<"P0a", "P1", "P2">>

PairVote(id, bottom) ==
    signVote(id, Client, CurrentNonce(Self),
             IF bottom THEN Null
             ELSE Some(TransactionFrom(PairTxs[CurrentNonce(Self) + 1])))

InitPair == Init

VoteOfPairArrives(vote) ==
    \E s \in {onVote(CoreState(Self), Self, vote)} :
        /\ accounts'  = [accounts  EXCEPT ![Self] = s.accounts]
        /\ voteStore' = [voteStore EXCEPT ![Self] = s.voteStore]
        /\ executed'  = [executed  EXCEPT ![Self] = s.executed]
        /\ calls' = calls + 1
        /\ calls' <= MaxCalls + 1
        /\ result' = [op |-> "onVote", error |-> onVoteError(vote), replay |-> FALSE]
        /\ inflight' = inflight \cup {[to |-> Self, vote |-> vote, id |-> calls']}
        /\ UNCHANGED accepted

TransactionVoteOfPairArrives ==
    \E id \in PairVoters :
        /\ CurrentNonce(Self) \in Nonces
        /\ VoteOfPairArrives(PairVote(id, FALSE))

BottomVoteOfPairArrives ==
    \E id \in PairVoters :
        /\ CurrentNonce(Self) \in Nonces
        /\ VoteOfPairArrives(PairVote(id, TRUE))

NextPair ==
    \/ TransactionVoteOfPairArrives
    \/ BottomVoteOfPairArrives

SpecPair == InitPair /\ [][NextPair]_vars

(***************************************************************************)
(* SpecCross: one core and two accounts that pay each other at nonce 0     *)
(* (P0a from the client, Q0 from the recipient).  The other validators     *)
(* vote for the payment of an account at that account; the Byzantine       *)
(* validator votes for the payment of the other account instead, under as  *)
(* many spellings of its address as it likes.                              *)
(***************************************************************************)
CrossTxs == {"P0a", "Q0"}

CrossSpellings == 0 .. (FINALITY_QUORUM - 1)

(* The Byzantine validator has voted three times for the client's payment *)
(* at the recipient's account.                                             *)
CrossVoted ==
    [sp \in 1 .. 3 |->
        <<"vote", Respell(signVote(Byzantine, Recipient, 0,
                                   Some(TransactionFrom("P0a"))), sp - 1)>>]

InitCross == \E script \in {<<>>, CrossVoted} : InitFrom(Self, script)

CrossPeerVotes(c) ==
    {signVote(id, Decoded[t].from, Decoded[t].nonce, Some(TransactionFrom(t))) :
        <<id, t>> \in {p \in Peers \X CrossTxs :
                          p[1] \in FreshPeerFor(c, Decoded[p[2]].from,
                                                Decoded[p[2]].nonce)}}

CrossByzantineVotes(c) ==
    {Respell(signVote(Byzantine, p[1], Decoded[p[2]].nonce,
                      Some(TransactionFrom(p[2]))), p[3]) :
        p \in {q \in {Client, Recipient} \X CrossTxs \X CrossSpellings :
                  /\ Decoded[q[2]].from # q[1]
                  /\ q[3] = Cardinality(
                       {i \in 1 .. Len(voteStore[c][q[1]][Decoded[q[2]].nonce]) :
                           voteStore[c][q[1]][Decoded[q[2]].nonce][i].validator[1]
                               = Byzantine})}}

ClientSubmitsCross ==
    \E tx \in CrossTxs : OnTransaction(Self, tx) /\ WithinBudget

PeerVotesCross ==
    \E vote \in CrossPeerVotes(Self) : OnVote(Self, vote) /\ WithinBudget

ByzantineVotesCross ==
    \E vote \in CrossByzantineVotes(Self) : OnVote(Self, vote) /\ WithinBudget

NextCross ==
    \/ ClientSubmitsCross
    \/ PeerVotesCross
    \/ ByzantineVotesCross

SpecCross == InitCross /\ [][NextCross]_vars

(***************************************************************************)
(* SpecAsync: one core whose handlers interleave at their awaits.  A       *)
(* handler that signs a vote is suspended (state "signing") until it       *)
(* resumes, stores the vote with onVote and hands it to the broadcast      *)
(* callback (state "broadcast"); other handlers of the core run in         *)
(* between.  inflight holds one record per vote the core has signed.       *)
(***************************************************************************)
Signing(s, id, state) ==
    {[to |-> Self, vote |-> s.broadcast[i], id |-> <<id, i>>, state |-> state] :
        i \in 1 .. Len(s.broadcast)}

OwnVotes(s) ==
    [broadcast |->
        SelectSeq(s.voteStore[Client][0] \o s.voteStore[Client][1],
                  LAMBDA v : v.validator = Address(Self))]

InitAsync ==
    \E script \in {<<>>, PaymentVoted, PaymentSplit} :
    \E s \in {Run(NewCore, Self, script)} :
        /\ accounts  = (Self :> s.accounts)
        /\ voteStore = (Self :> s.voteStore)
        /\ executed  = (Self :> s.executed)
        /\ accepted  = (Self :> {script[i][2] : i \in {j \in 1 .. Len(script) :
                                                          script[j][1] = "tx"}})
        /\ result    = [op |-> "new", error |-> "ok", replay |-> FALSE]
        /\ inflight  = Signing(OwnVotes(s), 0, "broadcast")
        /\ calls     = 0

AsyncStep(s, op, error) ==
    /\ accounts'  = [accounts  EXCEPT ![Self] = s.accounts]
    /\ voteStore' = [voteStore EXCEPT ![Self] = s.voteStore]
    /\ executed'  = [executed  EXCEPT ![Self] = s.executed]
    /\ calls' = calls + 1
    /\ calls' <= MaxCalls + 1
    /\ result' = [op |-> op, error |-> error, replay |-> FALSE]

AsyncTxs == {"P0a", "P0b", "P1"}

TransactionBegins ==
    \E tx \in AsyncTxs :
    \E s \in {onTransactionBegin(CoreState(Self), Self, tx)} :
    \E error \in {onTransactionError(CoreState(Self), tx)} :
        /\ AsyncStep(s, "onTransaction", error)
        /\ accepted' = IF error = "ok"
                       THEN [accepted EXCEPT ![Self] = @ \cup {tx}]
                       ELSE accepted
        /\ inflight' = inflight \cup Signing(s, calls', "signing")

VoteArrivesAsync ==
    \E vote \in PeerVotes(Self) :
    \E s \in {onVoteStep(CoreState(Self), Self, vote)} :
        /\ AsyncStep(s, "onVote", "ok")
        /\ inflight' = inflight \cup Signing(s, calls', "signing")
        /\ UNCHANGED accepted

HandlerResumes ==
    \E m \in inflight :
    \E s \in {onVoteStep(CoreState(Self), Self, m.vote)} :
        /\ m.state = "signing"
        /\ AsyncStep(s, "resume", "ok")
        /\ inflight' = (inflight \ {m}) \cup {[m EXCEPT !.state = "broadcast"]}
                           \cup Signing(s, calls', "signing")
        /\ UNCHANGED accepted

NextAsync ==
    \/ TransactionBegins
    \/ VoteArrivesAsync
    \/ HandlerResumes

SpecAsync == InitAsync /\ [][NextAsync]_vars

(***************************************************************************)
(* SpecNotar: a fresh core and the votes of the five other validators at   *)
(* nonce 0, all in flight to it: three votes for one payload and two for   *)
(* others, so that a notarisation certificate forms and no finality        *)
(* certificate does.  Every vote in flight is eventually delivered; the    *)
(* client may or may not submit a payment to the core.                     *)
(***************************************************************************)
NotarisedByPeers ==
    <<PeerVote(2, 0, "P0a"), PeerVote(3, 0, "P0a"), PeerVote(4, 0, "P0a"),
      PeerVote(5, 0, "P0b"), PeerVote(6, 0, "P0b")>>

BottomByPeers ==
    <<PeerVote(2, 0, ""), PeerVote(3, 0, ""), PeerVote(4, 0, ""),
      PeerVote(5, 0, "P0a"), PeerVote(6, 0, "P0b")>>

InitNotar ==
    \E script \in {NotarisedByPeers, BottomByPeers} :
        /\ accounts  = (Self :> NewCore.accounts)
        /\ voteStore = (Self :> NewCore.voteStore)
        /\ executed  = (Self :> NewCore.executed)
        /\ accepted  = (Self :> {})
        /\ result    = [op |-> "new", error |-> "ok", replay |-> FALSE]
        /\ inflight  = VotesOf(Self, script, ValidatorIds)
        /\ calls     = 0

VoteDeliveredNotar ==
    \E m \in inflight : m.to = Self /\ OnVoteFrom(m.to, m.vote, {m})

ClientSubmitsNotar ==
    \E tx \in {"P0a", "P0b", "P1"} : tx \in Txs /\ OnTransaction(Self, tx)

NextNotar ==
    \/ VoteDeliveredNotar
    \/ ClientSubmitsNotar

SpecNotar ==
    /\ InitNotar
    /\ [][NextNotar]_vars
    /\ WF_vars(VoteDeliveredNotar)

(***************************************************************************)
(* SpecHappy: the happy path.  The client signs one payment per nonce      *)
(* (HappyPath) and submits it to every validator at which it is valid;     *)
(* every validator is correct and broadcasts its vote, and every vote is   *)
(* eventually delivered, in any order.  Two configurations: cores 1 and 2  *)
(* with the payment at nonce 0, and core 1 alone with the payments at      *)
(* nonces 0 and 1.  The validators that are not cores under test have      *)
(* voted for each payment of their rounds (five of them finalise a nonce   *)
(* among themselves) and their votes are in flight; they are               *)
(* interchangeable, so of their votes at one nonce the one of the lowest   *)
(* validator id is delivered first.                                        *)
(***************************************************************************)
HappyPath == <<"P0a", "P1">>

HappyRounds == IF Cardinality(Cores) = 1 THEN Len(HappyPath) ELSE 1

HappyVotes(cores, rounds) ==
    {[to |-> c,
      vote |-> signVote(id, Client, Decoded[HappyPath[r]].nonce,
                        Some(TransactionFrom(HappyPath[r])))] :
        c \in cores, id \in ValidatorIds \ cores, r \in 1 .. rounds}

InitHappy ==
    \E cores \in {{Self}, {Self, Other}} :
        /\ accounts  = [c \in cores |-> NewCore.accounts]
        /\ voteStore = [c \in cores |-> NewCore.voteStore]
        /\ executed  = [c \in cores |-> NewCore.executed]
        /\ accepted  = [c \in cores |-> {}]
        /\ result    = [op |-> "new", error |-> "ok", replay |-> FALSE]
        /\ inflight  = HappyVotes(cores, IF cores = {Self}
                                         THEN Len(HappyPath) ELSE 1)
        /\ calls     = 0

LowestPeerFirst(m) ==
    m.vote.validator[1] \in Peers
    => \A x \in inflight :
          (/\ x.to = m.to
           /\ x.vote.nonce = m.vote.nonce
           /\ x.vote.validator[1] \in Peers)
          => x.vote.validator[1] >= m.vote.validator[1]

VoteDeliveredHappy ==
    \E m \in inflight : LowestPeerFirst(m) /\ OnVoteFrom(m.to, m.vote, {m})

ClientSubmitsHappy ==
    \E c \in Cores, r \in 1 .. HappyRounds :
        /\ onTransactionError(CoreState(c), HappyPath[r]) = "ok"
        /\ OnTransaction(c, HappyPath[r])

NextHappy ==
    \/ VoteDeliveredHappy
    \/ ClientSubmitsHappy

SpecHappy ==
    /\ InitHappy
    /\ [][NextHappy]_vars
    /\ WF_vars(VoteDeliveredHappy)
    /\ WF_vars(ClientSubmitsHappy)

(***************************************************************************)
(* SpecBottom: a split below the notarisation quorum.  The client signed   *)
(* several payments at nonce 0 (SplitTxs) and sent each to fewer than      *)
(* n - 3f validators; the core under test voted for P0a.  The other five   *)
(* validators are correct: each voted for one of the payments, and each    *)
(* casts its bottom vote (the five of them hold five votes with no payload *)
(* at n - 3f).  Their votes arrive at the core in any order, a bottom vote *)
(* possibly before the transaction vote of the same validator (which is    *)
(* then dropped).  Validators are interchangeable: the next validator to   *)
(* appear in the store is the one with the lowest unused id.               *)
(***************************************************************************)
SplitTxs == {"P0a", "P0b", "P0c"}

SplitAt == Decoded["P0a"].nonce

InitBottom == InitFrom(Self, <<<<"tx", "P0a">>>>)

SplitTransactionVotes(c) ==
    {signVote(id, Client, SplitAt, Some(TransactionFrom(t))) :
        id \in FreshPeer(c, SplitAt),
        t \in {u \in SplitTxs :
                  countQuorum(Stored(c, SplitAt), Some(TransactionFrom(u).hash)) + 1
                      < NOTARISATION_QUORUM}}

SplitBottomVotes(c) ==
    {signVote(id, Client, SplitAt, Null) : id \in FreshPeer(c, SplitAt)}
    \cup {signVote(Stored(c, SplitAt)[i].validator[1], Client, SplitAt, Null) :
             i \in FirstWhere(c, SplitAt,
                     LAMBDA v : /\ v.validator[1] \in Peers
                                /\ v.serializedTx # Null
                                /\ ~ HasBottom(c, SplitAt, v.validator))}

PeerTransactionVoteArrives ==
    \E vote \in SplitTransactionVotes(Self) : OnVote(Self, vote)

PeerBottomVoteArrives ==
    \E vote \in SplitBottomVotes(Self) : OnVote(Self, vote)

NextBottom ==
    \/ PeerTransactionVoteArrives
    \/ PeerBottomVoteArrives

SpecBottom == InitBottom /\ [][NextBottom]_vars

(***************************************************************************)
(* Properties.                                                             *)
(***************************************************************************)
Account(c, a) == accounts[c][a]

(* C3: across any sequence of onTransaction and onVote calls, no account's *)
(* nonce and no account's finalised ever decreases.                        *)
C3_NonceAndFinalisedNeverDecrease ==
    [][\A c \in Cores, a \in Accounts :
          /\ accounts'[c][a].nonce >= accounts[c][a].nonce
          /\ accounts'[c][a].finalised >= accounts[c][a].finalised]_vars

(* Both fields grew in calls of the run: the recovery at nonce 2 was       *)
(* finalised after nonce 1 had been passed by a bottom notarisation.       *)
C3_Witness ==
    /\ calls > 0
    /\ Account(Self, Client).nonce = 3
    /\ Account(Self, Client).finalised = 2

(* C4: finalised < nonce in every reachable state, and a step that sets    *)
(* finalised to m >= the nonce before the step leaves nonce = m + 1 and    *)
(* pending = false.                                                        *)
C4_FinalisedBelowNonce ==
    /\ [](\A c \in Cores, a \in Accounts :
             accounts[c][a].finalised < accounts[c][a].nonce)
    /\ [][\A c \in Cores, a \in Accounts :
             (/\ accounts'[c][a].finalised # accounts[c][a].finalised
              /\ accounts'[c][a].finalised >= accounts[c][a].nonce)
             => /\ accounts'[c][a].nonce = accounts'[c][a].finalised + 1
                /\ ~ accounts'[c][a].pending]_vars

(* The fifth vote for a payment at nonce 0 has just arrived at a core that *)
(* has not voted at nonce 0: the finality rule alone advanced the nonce.   *)
C4_Witness ==
    /\ calls = 1
    /\ result.op = "onVote"
    /\ Account(Self, Client).finalised = 0
    /\ Account(Self, Client).nonce = 1
    /\ ~ Account(Self, Client).pending
    /\ executed[Self] = <<"P0a">>
    /\ \A i \in 1 .. Len(Stored(Self, 0)) :
           Stored(Self, 0)[i].validator[1] # Self

(* The number of validators (whatever the spelling of their address) with *)
(* a vote for txHash among votes.                                          *)
DistinctVoters(votes, txHash) ==
    Cardinality({votes[i].validator[1] :
                    i \in {j \in 1 .. Len(votes) : voteTxHash(votes[j]) = txHash}})

(* votes holds n - f votes of distinct validators for one transaction      *)
(* whose chain start is the payment serialized as payment.                 *)
FinalityCertificateFor(votes, payment) ==
    \E i \in 1 .. Len(votes) :
        /\ votes[i].serializedTx # Null
        /\ getTxChainStart(voteTx(votes[i])[1]).serialized = payment
        /\ DistinctVoters(votes, voteTxHash(votes[i])) >= FINALITY_QUORUM

(* C1: every payment executeTransfer has applied is the chain start of a   *)
(* transaction for which the vote store holds, at some nonce of the        *)
(* account, votes of n - f distinct validators.                            *)
C1_ExecutedBehindCertificate ==
    \A c \in Cores : \A i \in 1 .. Len(executed[c]) :
        \E k \in Nonces :
            FinalityCertificateFor(voteStore[c][Decoded[executed[c][i]].from][k],
                                   executed[c][i])

(* C5: for every validator, account and nonce the store holds at most one  *)
(* vote with a transaction payload and at most one bottom vote.            *)
C5_OneVotePerValidator ==
    \A c \in Cores, a \in Accounts, k \in Nonces, id \in ValidatorIds :
        /\ Cardinality({i \in 1 .. Len(voteStore[c][a][k]) :
                           /\ voteStore[c][a][k][i].validator[1] = id
                           /\ voteStore[c][a][k][i].serializedTx # Null}) <= 1
        /\ Cardinality({i \in 1 .. Len(voteStore[c][a][k]) :
                           /\ voteStore[c][a][k][i].validator[1] = id
                           /\ voteStore[c][a][k][i].serializedTx = Null}) <= 1

(* The store of core c notarises the tip of recovery tx for n - 3f         *)
(* distinct validators, and bottom at every nonce between tip and tx.      *)
RecoveryBacked(c, tx) ==
    /\ tx.data # Null
    /\ LET tipTx == TransactionFrom(tx.data[1])
       IN  /\ tipTx.signed /\ tipTx.from = tx.from
           /\ tipTx.nonce \in Nonces
           /\ DistinctVoters(voteStore[c][tx.from][tipTx.nonce], Some(tipTx.hash))
                  >= NOTARISATION_QUORUM
           /\ \A k \in (tipTx.nonce + 1) .. (tx.nonce - 1) :
                  DistinctVoters(voteStore[c][tx.from][k], Null)
                      >= NOTARISATION_QUORUM

(* C6: when onTransaction accepts a recovery, the store at that moment     *)
(* holds votes of n - 3f distinct validators for its tip at the tip's      *)
(* nonce and bottom votes of n - 3f distinct validators at every nonce     *)
(* between the two, and the tip is signed by the sender of the recovery.   *)
C6_RecoveryAcceptedOnlyIfBacked ==
    [][\A c \in Cores, tx \in Transactions :
          (/\ tx \notin accepted[c]
           /\ tx \in accepted'[c]
           /\ Decoded[tx].to = RECOVERY_CONTRACT)
          => RecoveryBacked(c, TransactionFrom(tx))]_vars

(* Nonce k of the client's account was passed by a bottom notarisation at  *)
(* core c, which now waits at k + 1.                                       *)
PassedByBottom(c, k) ==
    /\ Account(c, Client).nonce = k + 1
    /\ ~ Account(c, Client).pending
    /\ Account(c, Client).finalised < k
    /\ countQuorum(voteStore[c][Client][k], Null) >= NOTARISATION_QUORUM

(* C8: a core that waits at nonce k + 1 after a bottom notarisation at k   *)
(* accepts some client-signed transaction at nonce k + 1.                  *)
C8_NeverLocked ==
    \A c \in Cores, k \in Nonces :
        (k + 1 \in Nonces /\ PassedByBottom(c, k))
        => \E tx \in Transactions :
              /\ Decoded[tx].nonce = k + 1
              /\ onTransactionError(CoreState(c), tx) = "ok"

(* C9: a call of onTransaction that throws leaves every account and the    *)
(* vote store as they were.                                                *)
C9_RejectedTransactionMutatesNothing ==
    [][(result'.op = "onTransaction" /\ result'.error # "ok")
          => (accounts' = accounts /\ voteStore' = voteStore)]_vars

(* A payment above the balance has just been rejected.                     *)
C9_Witness ==
    /\ result.op = "onTransaction"
    /\ result.error = "Insufficient balance"

(* C10: once onTransaction(b) has succeeded, onTransaction(b) throws the   *)
(* pending error or the nonce-mismatch error and changes nothing.          *)
C10_ReplayRejected ==
    \A c \in Cores : \A b \in accepted[c] :
        /\ onTransactionError(CoreState(c), b)
              \in {"Account has pending transaction", "Nonce mismatch"}
        /\ onTransaction(CoreState(c), c, b) = CoreState(c)

(* An accepted transaction has just been submitted again, after its nonce  *)
(* was passed.                                                             *)
C10_Witness ==
    /\ result.op = "onTransaction"
    /\ result.replay
    /\ result.error = "Nonce mismatch"

(* C2: no two correct validators execute different payments for the same  *)
(* account and nonce.                                                      *)
C2_NoConflictingExecution ==
    \A c \in Cores, d \in Cores :
        \A i \in 1 .. Len(executed[c]), j \in 1 .. Len(executed[d]) :
            (/\ Decoded[executed[c][i]].from = Decoded[executed[d][j]].from
             /\ Decoded[executed[c][i]].nonce = Decoded[executed[d][j]].nonce)
            => executed[c][i] = executed[d][j]

(* Votes of n - f distinct validators exist at nonce k of the client's     *)
(* account and no payload has votes of n - 3f distinct validators.         *)
SplitVotesExist(c, k) ==
    /\ Cardinality(VotersOf(Existing(c, Client, k))) >= FINALITY_QUORUM
    /\ \A v \in Existing(c, Client, k) :
           Cardinality(VotersOf({w \in Existing(c, Client, k) :
                                    voteTxHash(w) = voteTxHash(v)}))
               < NOTARISATION_QUORUM

(* C7: if votes of n - f distinct validators exist at nonce k and no       *)
(* payload reaches n - 3f, then under fair delivery the core eventually    *)
(* has cast its bottom vote at k.                                          *)
C7_BottomEventuallyCast ==
    \A k \in Nonces :
        SplitVotesExist(Self, k) ~> hasOwnBot(Self, Stored(Self, k))

Payments ==
    {t \in Txs : Decoded[t].signed /\ Decoded[t].to # RECOVERY_CONTRACT}

PaymentAllowed(acc, tx) ==
    /\ ~ acc.pending
    /\ tx.nonce = acc.nonce
    /\ acc.finalised = tx.nonce - 1
    /\ acc.balance >= tx.value

PaymentError(acc, tx) ==
    IF acc.pending THEN "Account has pending transaction"
    ELSE IF tx.nonce # acc.nonce THEN "Nonce mismatch"
    ELSE IF acc.finalised # tx.nonce - 1 THEN "Previous nonce not finalised"
    ELSE "Insufficient balance"

HasOwnVoteFor(c, store, t) ==
    \E i \in 1 .. Len(store[Decoded[t].from][Decoded[t].nonce]) :
        /\ store[Decoded[t].from][Decoded[t].nonce][i].validator = Address(c)
        /\ store[Decoded[t].from][Decoded[t].nonce][i].serializedTx = Some(t)

(* C12: onTransaction votes for a payment only if the account is not       *)
(* pending, the nonces agree, the previous nonce is finalised and the      *)
(* balance covers the amount; otherwise it throws the corresponding error  *)
(* and casts no vote.                                                      *)
C12_PaymentVotedOnlyIfValid ==
    /\ [](\A c \in Cores, t \in Payments :
             ~ PaymentAllowed(accounts[c][Decoded[t].from], Decoded[t])
             => /\ onTransactionError(CoreState(c), t)
                      = PaymentError(accounts[c][Decoded[t].from], Decoded[t])
                /\ onTransaction(CoreState(c), c, t) = CoreState(c))
    /\ [][\A c \in Cores, t \in Payments :
             (t \notin accepted[c] /\ t \in accepted'[c])
             => /\ PaymentAllowed(accounts[c][Decoded[t].from], Decoded[t])
                /\ HasOwnVoteFor(c, voteStore'[c], t)]_vars

(* A payment at nonce 1 has just been rejected because nonce 0 was passed  *)
(* by a notarisation only.                                                 *)
C12_Witness ==
    /\ result.op = "onTransaction"
    /\ result.error = "Previous nonce not finalised"
    /\ Account(Self, Client).nonce = 1
    /\ Account(Self, Client).finalised = -1
    /\ ~ Account(Self, Client).pending

(* C13: while an account is pending every client-signed transaction of the *)
(* account, whatever its nonce or kind, is rejected with the pending       *)
(* error, and pending becomes false only in a step that increases nonce.   *)
C13_PendingRejectsAll ==
    /\ [](\A c \in Cores, t \in Txs :
             (Decoded[t].signed /\ accounts[c][Decoded[t].from].pending)
             => /\ onTransactionError(CoreState(c), t)
                      = "Account has pending transaction"
                /\ onTransaction(CoreState(c), c, t) = CoreState(c))
    /\ [][\A c \in Cores, a \in Accounts :
             (accounts[c][a].pending /\ ~ accounts'[c][a].pending)
             => accounts'[c][a].nonce > accounts[c][a].nonce]_vars

(* A transaction has just been rejected at nonce 1 while the account was   *)
(* pending there, after pending had been cleared at nonce 0.               *)
C13_Witness ==
    /\ result.op = "onTransaction"
    /\ result.error = "Account has pending transaction"
    /\ Account(Self, Client).pending
    /\ Account(Self, Client).nonce = 1

RECURSIVE SumOfValues(_)
SumOfValues(txs) ==
    IF txs = <<>> THEN 0
    ELSE Decoded[txs[1]].value + SumOfValues(Tail(txs))

(* Core c has completed the first rounds payments of the happy path.       *)
HappyEnd(c, rounds) ==
    /\ Account(c, Client).nonce = rounds
    /\ Account(c, Client).finalised = rounds - 1
    /\ ~ Account(c, Client).pending
    /\ executed[c] = SubSeq(HappyPath, 1, rounds)
    /\ Account(c, Client).balance
          = GenesisBalance - SumOfValues(SubSeq(HappyPath, 1, rounds))
    /\ Account(c, Recipient).balance = SumOfValues(SubSeq(HappyPath, 1, rounds))

(* C14: when a valid payment is submitted to the validators and every      *)
(* validator's vote is delivered to every validator, in any order, every   *)
(* validator ends with nonce = k + 1, finalised = k, pending = false and   *)
(* the amount moved from the sender to the recipient exactly once; and so  *)
(* for the payment at the next nonce.                                      *)
C14_HappyPathCompletes ==
    <>[](\A c \in Cores : HappyEnd(c, HappyRounds))

(* The core under test alone has completed both rounds and no vote is left *)
(* in flight.                                                              *)
C14_Witness ==
    /\ Cores = {Self}
    /\ inflight = {}
    /\ HappyEnd(Self, Len(HappyPath))

(* The validators with a vote at nonce k in the store of core c, and the   *)
(* largest number of validators behind one payload there.                  *)
VotersAt(c, k) == {v[1] : v \in Present(c, k)}

HasOwnVote(c, k) == c \in VotersAt(c, k)

NotarisedNotFinal(c, store, k) ==
    /\ \E i \in 1 .. Len(store[c][Client][k]) :
           DistinctVoters(store[c][Client][k], voteTxHash(store[c][Client][k][i]))
               >= NOTARISATION_QUORUM
    /\ \A i \in 1 .. Len(store[c][Client][k]) :
           DistinctVoters(store[c][Client][k], voteTxHash(store[c][Client][k][i]))
               < FINALITY_QUORUM

(* C15: when the votes at the current nonce k are split so that some       *)
(* payload has votes of n - 3f validators and none has votes of n - f, a   *)
(* validator that voted at k and holds votes of n - f validators has       *)
(* advanced to k + 1, and the step that advances it clears pending and     *)
(* leaves finalised and every balance unchanged.                           *)
C15_SplitAdvancesWithoutFinality ==
    /\ [](\A c \in Cores, k \in Nonces :
             (/\ HasOwnVote(c, k)
              /\ Cardinality(VotersAt(c, k)) >= FINALITY_QUORUM
              /\ NotarisedNotFinal(c, voteStore, k))
             => Account(c, Client).nonce > k)
    /\ [][\A c \in Cores, k \in Nonces :
             (/\ accounts[c][Client].nonce = k
              /\ accounts'[c][Client].nonce = k + 1
              /\ \E i \in 1 .. Len(voteStore'[c][Client][k]) :
                     voteStore'[c][Client][k][i].validator[1] = c
              /\ NotarisedNotFinal(c, voteStore', k))
             => /\ ~ accounts'[c][Client].pending
                /\ accounts'[c][Client].finalised = accounts[c][Client].finalised
                /\ \A a \in Accounts :
                       accounts'[c][a].balance = accounts[c][a].balance]_vars

(* Every other validator's votes at nonce k have reached core c: its       *)
(* bottom vote is stored, and its transaction vote is stored or was        *)
(* dropped behind the bottom vote.                                         *)
AllVotesDelivered(c, k) ==
    \A id \in Peers : HasBottom(c, k, Address(id))

(* C16: when every validator voted for a transaction at nonce k, no        *)
(* payload has votes of n - 3f validators, and all votes are delivered,    *)
(* the core has cast bottom at k, bottom has votes of n - 3f distinct      *)
(* validators, and the nonce is k + 1 with finalised unchanged.            *)
C16_SplitBelowNotarisationCastsBottom ==
    AllVotesDelivered(Self, SplitAt)
    => /\ hasOwnBot(Self, Stored(Self, SplitAt))
       /\ DistinctVoters(Stored(Self, SplitAt), Null) >= NOTARISATION_QUORUM
       /\ Account(Self, Client).nonce = SplitAt + 1
       /\ Account(Self, Client).finalised = NewAccount(0).finalised

(* The recoveries whose chain start is the payment that core c executed at *)
(* the nonce it has finalised.                                             *)
RecoveriesOfFinalised(c) ==
    {t \in Transactions :
        /\ Decoded[t].to = RECOVERY_CONTRACT
        /\ getTxChainStart(TransactionFrom(t)).to # RECOVERY_CONTRACT
        /\ getTxChainStart(TransactionFrom(t)).nonce = accounts[c][Client].finalised
        /\ \E i \in 1 .. Len(executed[c]) :
               executed[c][i] = getTxChainStart(TransactionFrom(t)).serialized}

(* The votes stored at nonce m are a finality certificate for t: t is the  *)
(* transaction getMaxQuorumCert selects, with votes of n - f validators.   *)
FinalityCertFor(store, t) ==
    /\ getMaxQuorumCert(store, FINALITY_QUORUM).tx = Some(TransactionFrom(t))
    /\ DistinctVoters(store, Some(TransactionFrom(t).hash)) >= FINALITY_QUORUM

C18_PassedNoncesAreNotarised ==
    \A c \in Cores :
       /\ \A k \in Nonces :
             (Account(c, Client).finalised < k /\ k < Account(c, Client).nonce)
             => \E i \in 1 .. Len(Stored(c, k)) :
                   DistinctVoters(Stored(c, k), voteTxHash(Stored(c, k)[i]))
                       >= NOTARISATION_QUORUM
       /\ getRecoveryInfo(CoreState(c), Client).error = "ok"

(* C19: whenever finalised >= 0, getRecoveryInfo returns the finalised    *)
(* transaction together with a finality certificate holding votes of at    *)
(* least n - f distinct validators for it, whatever votes (bottom votes    *)
(* included) were stored at that nonce after the finalisation.             *)
C19_FinalisedTransactionReported ==
    \A c \in Cores :
       Account(c, Client).finalised >= 0
       => With(getRecoveryInfo(CoreState(c), Client), LAMBDA info :
             /\ info.serializedFinalisedTx # Null
             /\ info.finalityCert # Null
             /\ DistinctVoters(info.finalityCert[1],
                    Some(TransactionFrom(info.serializedFinalisedTx[1]).hash))
                    >= FINALITY_QUORUM)

(* Core c holds its own vote for transaction t at the nonce of t.          *)
VotedFor(s, c, t) ==
    \E i \in 1 .. Len(getVotes(s, Client, Decoded[t].nonce)) :
        /\ getVotes(s, Client, Decoded[t].nonce)[i].validator = Address(c)
        /\ getVotes(s, Client, Decoded[t].nonce)[i].serializedTx = Some(t)

(* C20: when the account is not pending and the snapshot getRecoveryInfo   *)
(* returns yields a tip, the recovery the client builds from the snapshot  *)
(* (tip = last chain entry that is not bottom, else the finalised          *)
(* transaction; nonce = currentNonce) is accepted by onTransaction of the  *)
(* same validator, which votes for it.                                     *)
C20_SnapshotRecoveryAccepted ==
    \A c \in Cores :
       ~ Account(c, Client).pending
       => With(getRecoveryInfo(CoreState(c), Client), LAMBDA info :
             info.error = "ok"
             => \A t \in initiateRecovery(info) :
                   /\ onTransactionError(CoreState(c), t) = "ok"
                   /\ VotedFor(onTransaction(CoreState(c), c, t), c, t))

(* The signature of the vote was not made by the validator the vote names *)
(* over the vote's account, nonce and transaction hash, or that validator  *)
(* is none of the validators of the static set.                            *)
BadVote(vote) ==
    \/ vote.signature.signer # vote.validator[1]
    \/ vote.signature.digest # Digest(vote.account, vote.nonce, voteTxHash(vote))
    \/ vote.validator[1] \notin ValidatorIds

(* C21: onVote throws for every vote whose signature does not recover to   *)
(* the validator it names or whose validator is not in the validator set,  *)
(* and a call of onVote that throws changes neither the vote store nor any *)
(* account.                                                                *)
C21_BadVoteRejected ==
    /\ [](\A c \in Cores :
            \A vote \in ForgedVotes \cup PeerVotes(c) \cup ReplayedVotes(c) :
               BadVote(vote)
               => /\ onVoteError(vote) # "ok"
                  /\ onVote(CoreState(c), c, vote) = CoreState(c))
    /\ [][(result'.op = "onVote" /\ result'.error # "ok")
             => /\ accounts' = accounts
                /\ voteStore' = voteStore
                /\ executed' = executed]_vars

(* A forged vote was rejected by a core that holds votes.                  *)
C21_Witness ==
    /\ result.op = "onVote"
    /\ result.error = "Invalid vote signature or validator not in set"
    /\ Len(Stored(Self, 0)) > 0

(* C22: at every validator and in every reachable state, whatever the     *)
(* order in which the votes for the accounts are delivered, the balance of *)
(* every account is at least 0.                                            *)
C22_BalanceNeverNegative ==
    \A c \in Cores, a \in Accounts : accounts[c][a].balance >= 0

(* C23: in ClassicValidatorCore a step clears the pending flag of an      *)
(* account at nonce k only when the votes stored at k hold votes of n - f  *)
(* distinct validators for one transaction; while no transaction has them  *)
(* pending stays true and onTransaction rejects every transaction of the   *)
(* account.                                                                *)
C23_ClassicPendingUntilFinality ==
    /\ [](\A c \in Cores :
            Account(c, Client).pending
            => \A tx \in {t \in Txs : Decoded[t].signed /\ Decoded[t].from = Client} :
                  classicOnTransactionError(CoreState(c), tx)
                      = "Account has pending transaction")
    /\ [][\A c \in Cores, k \in Nonces :
             (/\ accounts[c][Client].pending
              /\ accounts[c][Client].nonce = k
              /\ ~ accounts'[c][Client].pending)
             => \E i \in 1 .. Len(voteStore'[c][Client][k]) :
                   /\ voteStore'[c][Client][k][i].serializedTx # Null
                   /\ DistinctVoters(voteStore'[c][Client][k],
                                     voteTxHash(voteStore'[c][Client][k][i]))
                          >= classicFinalityQuorum]_vars

(* C24: a ValidatorServer returns the vote of an accepted transaction      *)
(* without waiting for any peer: while the handler is suspended at the     *)
(* broadcast callback it can return at once, whatever requests are still   *)
(* unanswered, and it returns without an error whether the peers answer,   *)
(* fail or stay silent.                                                    *)
C24_ResponseWithoutPeers ==
    /\ [](Awaiting => ENABLED ServerResponds)
    /\ [][Awaiting => /\ result'.error = "ok"
                      /\ result'.op \in {"broadcastVoteCallback", "onTransaction"}]_vars

(* The vote has been returned while one peer has failed and the others     *)
(* have not answered.                                                      *)
C24_Witness ==
    /\ result.op = "onTransaction" /\ result.error = "ok"
    /\ \E m \in inflight : m.state = "failed"
    /\ \E m \in outstanding : TRUE
    /\ \A m \in inflight : m.state # "answered"

(* C25: a recovery-protocol validator cannot be started with n < 5f + 1:   *)
(* constructing a ValidatorCore with a validator list of size n and a      *)
(* Byzantine budget f where n < 5f + 1 fails.                              *)
C25_StartFailsBelowFiveFPlusOne ==
    (/\ result.op = "new"
     /\ result.mode = "recovery"
     /\ result.n < 5 * result.f + 1)
    => result.error # "ok"

(* The votes a core saw when it cast its bottom vote: all but that vote.   *)
SeenAtCast(c, votes) ==
    SelectSeq(votes, LAMBDA v : ~ (v.validator = Address(c) /\ v.serializedTx = Null))

(* C26: a validator casts bottom at nonce k of an account only when k is   *)
(* the account's nonce, no payload (bottom included) has votes of n - 3f   *)
(* distinct validators at k, and its store holds votes at k of n - f       *)
(* distinct validators, a validator with a transaction vote and a bottom   *)
(* vote counting once.                                                     *)
C26_BottomCastOnlyOnSplit ==
    [][\A c \in Cores : \A k \in Nonces :
          (/\ ~ hasOwnBot(c, voteStore[c][Client][k])
           /\ hasOwnBot(c, voteStore'[c][Client][k]))
          => LET seen == SeenAtCast(c, voteStore'[c][Client][k])
             IN  /\ k = accounts[c][Client].nonce
                 /\ \A i \in 1 .. Len(seen) :
                        DistinctVoters(seen, voteTxHash(seen[i])) < NOTARISATION_QUORUM
                 /\ Cardinality({seen[i].validator[1] : i \in 1 .. Len(seen)})
                        >= FINALITY_QUORUM]_vars

(* The finality rule runs in a step of core c: the step stores a vote at   *)
(* the account's nonce k and the largest group of the votes then stored at *)
(* k has n - f votes for a transaction.                                    *)
FinalityRuleRuns(c, k) ==
    /\ k = accounts[c][Client].nonce
    /\ k \in Nonces
    /\ voteStore'[c][Client][k] # voteStore[c][Client][k]
    /\ getMaxQuorumCert(voteStore'[c][Client][k], 1).quorum >= FINALITY_QUORUM
    /\ getMaxQuorumCert(voteStore'[c][Client][k], 1).tx # Null

ChainStartAt(c, k) ==
    getTxChainStart(getMaxQuorumCert(voteStore'[c][Client][k], 1).tx[1])

BalancesUnchanged(c) ==
    /\ \A a \in Accounts : accounts'[c][a].balance = accounts[c][a].balance
    /\ executed'[c] = executed[c]

(* The first two cases of the finality rule: the chain start is the next   *)
(* transaction to execute, or the one executed last.                       *)
FinalityApplied(c, k, orig) ==
    /\ result'.error = "ok"
    /\ orig.nonce = accounts[c][Client].finalised + 1
        => /\ executed'[c] = Append(executed[c], orig.serialized)
           /\ accounts'[c][orig.from].balance =
                  accounts[c][orig.from].balance - orig.value
           /\ accounts'[c][orig.to].balance =
                  accounts[c][orig.to].balance + orig.value
           /\ accounts'[c][Client].finalised = k
    /\ orig.nonce = accounts[c][Client].finalised
        => /\ accounts'[c][Client].finalised = k
           /\ BalancesUnchanged(c)

Inconsistent(c, orig) ==
    /\ orig.nonce # accounts[c][Client].finalised + 1
    /\ orig.nonce # accounts[c][Client].finalised

C28_StoredVotesEvaluatedOnAdvance ==
    [][\A c \in Cores : \A k \in Nonces :
          (accounts[c][Client].nonce < k /\ accounts'[c][Client].nonce = k)
          => LET votes == voteStore'[c][Client][k]
                 mq == getMaxQuorumCert(votes, 1)
                 finalised == accounts'[c][Client].finalised
             IN  /\ ~ (/\ mq.quorum >= FINALITY_QUORUM
                       /\ mq.tx # Null
                       /\ getTxChainStart(mq.tx[1]).nonce \in {finalised, finalised + 1})
                 /\ (/\ Cardinality({votes[i].validator[1] : i \in 1 .. Len(votes)})
                            >= FINALITY_QUORUM
                      /\ mq.quorum < NOTARISATION_QUORUM)
                     => hasOwnBot(c, votes)]_vars

(* Every tip in the chain of tx has a nonce strictly below the nonce of    *)
(* the recovery that wraps it.                                             *)
RECURSIVE TipsBelow(_)
TipsBelow(tx) ==
    (tx.to = RECOVERY_CONTRACT /\ tx.data # Null)
    => /\ TransactionFrom(tx.data[1]).nonce < tx.nonce
       /\ TipsBelow(TransactionFrom(tx.data[1]))

(* C29: every recovery accepted by onTransaction has, at every nesting     *)
(* level, a tip whose nonce is strictly lower than the nonce of the        *)
(* recovery wrapping it.                                                   *)
C29_AcceptedTipsBelow ==
    \A c \in Cores : \A t \in accepted[c] : TipsBelow(TransactionFrom(t))

(* The caps a run of the model can exceed: those below the deepest chain   *)
(* among the transactions the client signs.                                *)
DepthCaps ==
    {cap \in 0 .. Cardinality(Txs) :
        \E t \in Txs : cap < chainDepth(TransactionFrom(t))}

(* C30: chain resolution is capped: there is a cap such that no recovery   *)
(* nested deeper is accepted and no certificate the finality rule resolves *)
(* is nested deeper.                                                       *)
C30_ChainDepthCapped ==
    \E cap \in DepthCaps :
        \A c \in Cores :
            /\ \A t \in accepted[c] : chainDepth(TransactionFrom(t)) <= cap
            /\ \A k \in Nonces :
                   LET mq == getMaxQuorumCert(voteStore[c][Client][k], 1)
                   IN  (mq.quorum >= FINALITY_QUORUM /\ mq.tx # Null)
                       => chainDepth(mq.tx[1]) <= cap

(* The votes stored at nonce k hold a notarisation certificate: n - 3f     *)
(* distinct validators voted for one payload.                              *)
NotarisedAt(c, k) ==
    \E i \in 1 .. Len(Stored(c, k)) :
        DistinctVoters(Stored(c, k), voteTxHash(Stored(c, k)[i])) >= NOTARISATION_QUORUM

C32_FinalisedPaymentNotSkipped ==
    \A c \in Cores, d \in Cores :
        \A i \in 1 .. Len(executed[c]) :
            accounts[d][Decoded[executed[c][i]].from].finalised
                >= Decoded[executed[c][i]].nonce
            => \E j \in 1 .. Len(executed[d]) : executed[d][j] = executed[c][i]

RECURSIVE SumOfBalances(_, _)
SumOfBalances(c, as) ==
    IF as = {} THEN 0
    ELSE LET a == CHOOSE x \in as : TRUE
         IN  accounts[c][a].balance + SumOfBalances(c, as \ {a})

(* C34: at each validator the sum of all account balances is the genesis   *)
(* total in every reachable state: a transfer debits the sender and        *)
(* credits the recipient by the same amount, also when they are one        *)
(* account.                                                                *)
C34_BalanceSumConstant ==
    \A c \in Cores : SumOfBalances(c, Accounts) = GenesisBalance

(* The refund Q0 and the client's payment to itself S1 are both executed.  *)
C34_Witness ==
    /\ \E i \in 1 .. Len(executed[Self]) : executed[Self][i] = "S1"
    /\ \E i \in 1 .. Len(executed[Self]) : executed[Self][i] = "Q0"
    /\ Account(Self, Client).balance = GenesisBalance

(* The votes core c has signed at nonce k of account a: for a transaction  *)
(* (bottom = FALSE) or bottom votes (bottom = TRUE).                       *)
SignedAt(c, a, k, bottom) ==
    {m \in inflight : /\ m.vote.validator = Address(c)
                      /\ m.vote.account = a
                      /\ m.vote.nonce = k
                      /\ (m.vote.serializedTx = Null) = bottom}

(* C35: a core signs at most one transaction vote per account and nonce,   *)
(* whatever the interleaving of its handlers at their awaits.              *)
C35_OneTransactionVoteSigned ==
    \A c \in Cores, a \in Accounts, k \in Nonces :
        Cardinality(SignedAt(c, a, k, FALSE)) <= 1

(* A transaction was submitted while the handler of another one at the     *)
(* same nonce was suspended, and was rejected.                             *)
C35_Witness ==
    /\ result.op = "onTransaction"
    /\ result.error = "Account has pending transaction"
    /\ \E m \in SignedAt(Self, Client, 0, FALSE) : m.state = "signing"

(* C36: between the bottom rule's check that the core has not cast bottom  *)
(* at a nonce and the storing of its bottom vote no other handler runs the *)
(* rule: the core signs at most one bottom vote per account and nonce.     *)
C36_OneBottomVoteSigned ==
    \A c \in Cores, a \in Accounts, k \in Nonces :
        Cardinality(SignedAt(c, a, k, TRUE)) <= 1

InStore(c, vote) ==
    \E i \in 1 .. Len(voteStore[c][vote.account][vote.nonce]) :
        voteStore[c][vote.account][vote.nonce][i] = vote

C38_CountIgnoresLetterCase ==
    \A c \in Cores, k \in Nonces :
        \A i \in 1 .. Len(voteStore[c][Client][k]) :
            LET votes == voteStore[c][Client][k]
                txHash == voteTxHash(votes[i])
            IN  countQuorum(votes, txHash)
                    = Cardinality({votes[j].validator[1] :
                          j \in {l \in 1 .. Len(votes) :
                                     voteTxHash(votes[l]) = txHash}})

(* A handler for account a took the core from s0 to s: of every other     *)
(* account nonce, pending, finalised and the stored votes are as before,   *)
(* and the balance is as before or credited by a payment of a executed in  *)
(* the call.                                                               *)
OtherAccountsKept(s0, s, a) ==
    \A b \in Accounts \ {a} :
        /\ s.accounts[b].nonce = s0.accounts[b].nonce
        /\ s.accounts[b].pending = s0.accounts[b].pending
        /\ s.accounts[b].finalised = s0.accounts[b].finalised
        /\ s.voteStore[b] = s0.voteStore[b]
        /\ \/ s.accounts[b].balance = s0.accounts[b].balance
           \/ \E i \in (Len(s0.executed) + 1) .. Len(s.executed) :
                 /\ Decoded[s.executed[i]].from = a
                 /\ Decoded[s.executed[i]].to = b
                 /\ s.accounts[b].balance
                        = s0.accounts[b].balance + Decoded[s.executed[i]].value

(* C39: accounts are independent: whatever transaction or vote a core      *)
(* receives next, the call changes nonce, pending, finalised and stored     *)
(* votes of the account of the call only, and the balance of another       *)
(* account only by the credit to the recipient of a payment executed for   *)
(* the account of the call.                                                *)
C39_AccountsIndependent ==
    \A c \in Cores :
        /\ \A tx \in CrossTxs :
              OtherAccountsKept(CoreState(c), onTransaction(CoreState(c), c, tx),
                                Decoded[tx].from)
        /\ \A vote \in CrossPeerVotes(c) \cup CrossByzantineVotes(c) :
              OtherAccountsKept(CoreState(c), onVote(CoreState(c), c, vote),
                                vote.account)

(* C40: in ClassicValidatorCore finalised = nonce - 1 holds for every       *)
(* account in every reachable state, and a step changes the nonce of an     *)
(* account only by moving nonce and finalised up by one together, when the  *)
(* votes stored at the nonce it leaves hold votes of n - f distinct         *)
(* validators for one transaction.                                          *)
C40_ClassicFinalisedFollowsNonce ==
    /\ [](\A c \in Cores, a \in Accounts :
            accounts[c][a].finalised = accounts[c][a].nonce - 1)
    /\ [][\A c \in Cores, a \in Accounts :
            accounts'[c][a].nonce # accounts[c][a].nonce
            => /\ accounts'[c][a].nonce = accounts[c][a].nonce + 1
               /\ accounts'[c][a].finalised = accounts[c][a].finalised + 1
               /\ \E i \in 1 .. Len(voteStore'[c][a][accounts[c][a].nonce]) :
                     LET votes == voteStore'[c][a][accounts[c][a].nonce]
                     IN  /\ votes[i].serializedTx # Null
                         /\ Cardinality({votes[j].validator[1] :
                                j \in {l \in 1 .. Len(votes) :
                                          voteTxHash(votes[l]) = voteTxHash(votes[i])}})
                              >= classicFinalityQuorum]_vars

=============================================================================
